---------------------------- MODULE Spec2Model ----------------------------
(***************************************************************************)
(* A model of the Monsti daemon's service                                  *)
(* (core/monsti-daemon/service.go): the node-type/field registry, the     *)
(* signal bus (ConnectSignal / EmitSignal / WaitSignal / FinishSignal),   *)
(* the node store and the site configuration.                             *)
(*                                                                         *)
(* The specifications share the module's variables:                       *)
(*   SpecRegistry   RegisterNodeType and GetNodeType; the handlers hold    *)
(*                  MonstiService.mutex for their whole body, so each is   *)
(*                  one action.                                            *)
(*   SpecAddable    RegisterNodeType and GetAddableNodeTypes, over node    *)
(*                  types that differ in their AddableTo lists.            *)
(*   SpecConcurrent the registry RPCs as goroutines that take and release  *)
(*                  the mutex, one step for each access.                   *)
(*   SpecSignal     the signal bus.  Its handlers take no lock, so each    *)
(*                  shared-memory access and each channel operation is a   *)
(*                  step of its own and the steps of concurrent RPC calls  *)
(*                  interleave.                                            *)
(*   SpecWatchdog   one emission, its subscribers and the goroutines that  *)
(*                  log while EmitSignal waits, under fair timers.         *)
(*   SpecRouting    concurrent emissions to subscribers that alternate     *)
(*                  WaitSignal and FinishSignal.                           *)
(*   SpecLive       the same with fair scheduling, for termination.        *)
(*   SpecConnect    the signal bus with its ConnectSignal calls made one   *)
(*                  after another.                                         *)
(*   SpecStore      GetNode, GetChildren, WriteNodeData and RenameNode     *)
(*                  over a file tree.                                      *)
(*   SpecConfig     GetSiteConfig over the states of a module's file.      *)
(***************************************************************************)
EXTENDS Naturals, Sequences, FiniteSets, TLC

VARIABLES
  \* ---- registry (Settings.Config) ----
  NodeTypes,      \* Config.NodeTypes: type id -> *NodeType (the object)
  NodeFields,     \* Config.NodeFields: field id -> *NodeField (an address)
  mapsMade,       \* FALSE while Config.NodeTypes is the nil map
  heap,           \* the field objects: address -> [Id, Def]
  regCalls,       \* number of RegisterNodeType calls made so far
  reply,          \* the last RPC's call and result
  firstType,      \* history: type id -> the object stored by the first
                  \*          successful registration of that id
  firstField,     \* history: field id -> the address supplied by the first
                  \*          successful registration that declared it
  \* ---- signal bus ----
  subscriptions,  \* m.subscriptions: signal name -> list of subscriber ids
  subsMade,       \* FALSE while m.subscriptions is the nil map
  subscriberMade, \* FALSE while m.subscriber is the nil map
  subscriber,     \* m.subscriber: subscriber id -> inbound channel (Nil: none)
  subscriberRet,  \* m.subscriberRet: subscriber id -> result channel
  retMade,        \* FALSE while m.subscriberRet is the nil map
  conn,           \* the ConnectSignal calls (one goroutine each)
  emit,           \* the EmitSignal calls
  wait,           \* the WaitSignal calls
  fin,            \* the FinishSignal calls
  crashed,        \* the daemon process died (a panic or a runtime throw)
  connectLog,     \* history: signal name -> ids in the order they were appended
  delivered,      \* history: emitter -> the deliveries of its emission, in order
  lostRet,        \* history: result channels overwritten in subscriberRet
                  \*          while their emitter was still waiting on them
  watchdog,       \* the goroutines started at service.go:142, one for each
                  \* subscriber of each emission: [pc, done, logged]
  \* ---- registry RPCs running concurrently ----
  mutex,          \* MonstiService.mutex: [writer, readers]
  rpc,            \* the RPC goroutines: position and locals of each
  \* ---- node store (the site's node directory) ----
  fs,             \* the file tree: location -> [kind, data, bad]
  storeCalls,     \* number of changes made to the file tree so far
  sreply,         \* the last node-store RPC's call and result
  \* ---- site configuration ----
  configs,        \* the configuration files: module name -> file state
  creply          \* the last GetSiteConfig call and result

regVars == <<NodeTypes, NodeFields, mapsMade, heap, regCalls, reply,
             firstType, firstField>>
sigVars == <<subscriptions, subsMade, subscriberMade, subscriber, subscriberRet, retMade,
             conn, emit, wait, fin, connectLog, delivered, lostRet, watchdog>>
lockVars == <<mutex, rpc>>
storeVars == <<fs, storeCalls, sreply>>
cfgVars == <<configs, creply>>
extVars == <<lockVars, storeVars, cfgVars>>
vars == <<regVars, sigVars, extVars, crashed>>

-----------------------------------------------------------------------------
(* Bounds of the model *)

MaxCalls == 3        \* RegisterNodeType calls in one behaviour
MaxFields == 2       \* fields in one incoming node type
MaxAddable == 2      \* AddableTo entries in one incoming node type
MaxParentLen == 3    \* characters in a parent type id
NumProcs == 3        \* registry RPCs running concurrently
MaxStoreCalls == 3   \* changes made to the file tree in one behaviour
MaxNameLen == 5      \* characters in a GetSiteConfig name

EmptyMap == [x \in {} |-> 0]

\* Strings are sequences of characters, so that indexing and slicing are
\* what the code's are.
Chars == {"n", "."}
Dot == <<".">>

RECURSIVE StringsUpTo(_)
StringsUpTo(n) ==
  IF n = 0 THEN {<<>>}
  ELSE LET shorter == StringsUpTo(n - 1)
       IN  shorter \cup {Append(s, c) : s \in {t \in shorter : Len(t) = n - 1},
                                         c \in Chars}

RECURSIVE SeqsUpTo(_, _)
SeqsUpTo(S, n) ==
  IF n = 0 THEN {<<>>}
  ELSE LET shorter == SeqsUpTo(S, n - 1)
       IN  shorter \cup {Append(s, x) : s \in {t \in shorter : Len(t) = n - 1},
                                         x \in S}

TypeIds == {"t1", "t2", "t3"}
FieldIds == {"f1", "f2"}
FieldDefs == {"d1", "d2"}    \* the rest of a field: Required, Name, Type
\* AddableTo entries: empty, the root marker, an exact id, a namespace prefix.
Patterns == {<<>>, Dot, <<"n">>, <<"n", ".">>}
ParentIds == StringsUpTo(MaxParentLen)

SeqToSet(s) == {s[i] : i \in 1..Len(s)}

\* The orders in which a Go map with key set S may be ranged over.
Orders(S) == {o \in [1..Cardinality(S) -> S] : SeqToSet(o) = S}


-----------------------------------------------------------------------------
(* The registry: service.go, findAddableNodeTypes .. RegisterNodeType *)

\* What a registering module may send: RegInputs exercises the field list,
\* AddableInputs the AddableTo patterns.
FieldInputs == [Id : FieldIds, Def : FieldDefs]
RegInputs ==
  [Id : TypeIds, Hide : {FALSE}, AddableTo : {<<Dot>>},
   Fields : SeqsUpTo(FieldInputs, MaxFields)]
AddableInputs ==
  [Id : {"t1", "t2"}, Hide : BOOLEAN,
   AddableTo : SeqsUpTo(Patterns, MaxAddable), Fields : {<<>>}]

\* service.go:413  _, ok := m.Settings.Config.NodeTypes[nodeType.Id]
HasNodeTypeNever(id) == FALSE
HasNodeType(id) == id \in DOMAIN NodeTypes

\* service.go:423  nodeType.Fields[i] = existing
KeepIncoming(existing, incoming) == incoming
DedupField(existing, incoming) == existing

\* service.go:421-427: the loop over nodeType.Fields, from index i on.
\* fields are the addresses the node type holds, h the objects, nf the
\* NodeFields map.
RECURSIVE RegisterFields(_, _, _, _)
RegisterFields(i, fields, h, nf) ==
  IF i > Len(fields) THEN [Fields |-> fields, NodeFields |-> nf]
  ELSE LET fid == h[fields[i]].Id
       IN  IF fid \in DOMAIN nf
           THEN RegisterFields(i + 1,
                  [fields EXCEPT ![i] = DedupField(nf[fid], fields[i])], h, nf)
           ELSE RegisterFields(i + 1, fields, h, (fid :> fields[i]) @@ nf)

\* The first address holding a field with id fid among fields (history only).
FirstWithId(fields, h, fid) ==
  fields[CHOOSE i \in 1..Len(fields) :
           /\ h[fields[i]].Id = fid
           /\ \A j \in 1..(i - 1) : h[fields[j]].Id # fid]

\* service.go:409-429.  The RPC layer decodes the argument into fresh
\* objects: the fields of call number k live at addresses <<k, 1>>, <<k, 2>>..
RegisterNodeType(nt) ==
  /\ ~crashed
  /\ regCalls < MaxCalls
  /\ regCalls' = regCalls + 1
  /\ IF HasNodeType(nt.Id)
     THEN /\ reply' = [op |-> "RegisterNodeType", arg |-> nt, err |-> TRUE]
          /\ UNCHANGED <<NodeTypes, NodeFields, mapsMade, heap,
                         firstType, firstField>>
     ELSE LET incoming == [i \in 1..Len(nt.Fields) |-> <<regCalls' , i>>]
              h == [a \in SeqToSet(incoming) |-> nt.Fields[a[2]]] @@ heap
              done == RegisterFields(1, incoming, h, NodeFields)
              stored == [Id |-> nt.Id, Hide |-> nt.Hide,
                         AddableTo |-> nt.AddableTo, Fields |-> done.Fields]
              newIds == {f.Id : f \in SeqToSet(nt.Fields)} \ DOMAIN firstField
          IN  /\ mapsMade' = TRUE
              /\ heap' = h
              /\ NodeTypes' = (nt.Id :> stored) @@ NodeTypes
              /\ NodeFields' = done.NodeFields
              /\ reply' = [op |-> "RegisterNodeType", arg |-> nt, err |-> FALSE]
              /\ firstType' =
                   IF nt.Id \in DOMAIN firstType THEN firstType
                   ELSE (nt.Id :> [stored |-> stored,
                                   listed |-> [i \in 1..Len(nt.Fields) |->
                                                 nt.Fields[i].Id]])
                        @@ firstType
              /\ firstField' =
                   [fid \in newIds |-> FirstWithId(incoming, h, fid)]
                   @@ firstField
  /\ UNCHANGED <<sigVars, extVars, crashed>>

\* service.go:398-407
GetNodeType(nodeTypeID) ==
  /\ ~crashed
  /\ reply' = IF nodeTypeID \in DOMAIN NodeTypes
              THEN [op |-> "GetNodeType", arg |-> nodeTypeID, err |-> FALSE,
                    val |-> NodeTypes[nodeTypeID]]
              ELSE [op |-> "GetNodeType", arg |-> nodeTypeID, err |-> TRUE]
  /\ UNCHANGED <<NodeTypes, NodeFields, mapsMade, heap, regCalls,
                 firstType, firstField, sigVars, extVars, crashed>>

\* service.go:377-379: one AddableTo entry against the parent type id.
\* Indexing an empty string and slicing past the end of nodeType panic.
MatchEntry(addableTo, nodeType) ==
  IF addableTo = Dot THEN "match"
  ELSE IF addableTo = nodeType THEN "match"
  ELSE IF Len(addableTo) = 0 THEN "panic"
  ELSE IF addableTo[Len(addableTo)] # "." THEN "nomatch"
  ELSE IF Len(addableTo) > Len(nodeType) THEN "panic"
  ELSE IF SubSeq(nodeType, 1, Len(addableTo)) = addableTo THEN "match"
  ELSE "nomatch"

\* service.go:376-383: the inner loop, which stops at the first match.
RECURSIVE MatchEntries(_, _, _)
MatchEntries(entries, k, nodeType) ==
  IF k > Len(entries) THEN "nomatch"
  ELSE LET r == MatchEntry(entries[k], nodeType)
       IN  IF r = "nomatch" THEN MatchEntries(entries, k + 1, nodeType)
           ELSE r

\* service.go:372-386, ranging over the map in the given order.
RECURSIVE findAddableSkipHidden(_, _, _, _, _)
findAddableSkipHidden(nodeType, nodeTypes, order, k, types) ==
  IF k > Len(order) THEN [panic |-> FALSE, types |-> types]
  ELSE LET other == nodeTypes[order[k]]
           r == IF other.Hide THEN "nomatch"
                ELSE MatchEntries(other.AddableTo, 1, nodeType)
       IN  IF r = "panic" THEN [panic |-> TRUE, types |-> <<>>]
           ELSE findAddableSkipHidden(nodeType, nodeTypes, order, k + 1,
                  IF r = "match" THEN Append(types, other.Id) ELSE types)
RECURSIVE findAddableFrom(_, _, _, _, _)
findAddableFrom(nodeType, nodeTypes, order, k, types) ==
  IF k > Len(order) THEN [panic |-> FALSE, types |-> types]
  ELSE LET other == nodeTypes[order[k]]
           r == MatchEntries(other.AddableTo, 1, nodeType)
       IN  IF r = "panic" THEN [panic |-> TRUE, types |-> <<>>]
           ELSE findAddableFrom(nodeType, nodeTypes, order, k + 1,
                  IF r = "match" THEN Append(types, other.Id) ELSE types)

findAddableNodeTypes(nodeType, nodeTypes, order) ==
  findAddableFrom(nodeType, nodeTypes, order, 1, <<>>)

\* service.go:390-396.  A panic in an RPC handler is not recovered: the
\* daemon dies.
GetAddableNodeTypes(nodeType, order) ==
  /\ ~crashed
  /\ LET r == findAddableNodeTypes(nodeType, NodeTypes, order)
     IN  /\ reply' = [op |-> "GetAddableNodeTypes", arg |-> nodeType,
                      panic |-> r.panic, val |-> r.types]
         /\ crashed' = r.panic
  /\ UNCHANGED <<NodeTypes, NodeFields, mapsMade, heap, regCalls,
                 firstType, firstField, sigVars, extVars>>


-----------------------------------------------------------------------------
(* The signal bus: service.go, ConnectSignal .. FinishSignal *)

NumConnectors == 2   \* ConnectSignal calls in one behaviour
NumEmitters == 2     \* EmitSignal calls
NumWaiters == 2      \* WaitSignal calls
NumFinishers == 2    \* FinishSignal calls
MaxBusCalls == 6     \* calls of all four kinds together
MaxLogs == 2         \* log lines of one watchdog that are counted

Connectors == 1..NumConnectors
Emitters == 1..NumEmitters
Waiters == 1..NumWaiters
Finishers == 1..NumFinishers

SubIds == {"s1", "s2"}
SigNames == {"X"}
ArgsSet == {"args"}
RetSet == {"r1"}
ErrSet == {"", "failed"}

\* Channels.  make(chan ..) yields a channel distinct from every other one:
\* the inbound channel made by connector c, the result channel made by
\* emitter e for the i-th subscriber of its list.  Nil is the nil channel,
\* on which a send or a receive blocks for ever.
Nil == <<>>
SubChan(c) == <<"sub", c>>
RetChanShared(e, i) == <<"ret", 1, i>>
RetChan(e, i) == <<"ret", e, i>>

NoSignal == [Name |-> "", Args |-> "", Ret |-> Nil]

\* The watchdog goroutines: the one started by emitter e for the i-th
\* subscriber of its list is watchdog[<<e, i>>]; done is the variable of
\* service.go:141 that the goroutine's closure shares with EmitSignal.
WdKeys == {<<e, i>> : e \in Emitters, i \in 1..NumConnectors}
NoWatchdog == [pc |-> "none", done |-> FALSE, logged |-> 0]

InitRegistry ==
  /\ NodeTypes = EmptyMap
  /\ NodeFields = EmptyMap
  /\ mapsMade = FALSE
  /\ heap = EmptyMap
  /\ regCalls = 0
  /\ reply = [op |-> "none"]
  /\ firstType = EmptyMap
  /\ firstField = EmptyMap

InitSignal ==
  /\ subscriptions = [s \in SigNames |-> <<>>]
  /\ subsMade = FALSE
  /\ subscriberMade = FALSE
  /\ subscriber = [id \in SubIds |-> Nil]
  /\ subscriberRet = [id \in SubIds |-> Nil]
  /\ retMade = FALSE
  /\ conn = [c \in Connectors |->
               [pc |-> "idle", Id |-> "", Signal |-> "", old |-> <<>>]]
  /\ emit = [e \in Emitters |->
               [pc |-> "idle", Name |-> "", Args |-> "", n |-> 0, subs |-> <<>>,
                i |-> 0, ch |-> Nil, retChan |-> Nil, ret |-> <<>>,
                err |-> ""]]
  /\ wait = [w \in Waiters |->
               [pc |-> "idle", subscriber |-> "", ch |-> Nil,
                signal |-> NoSignal]]
  /\ fin = [f \in Finishers |->
              [pc |-> "idle", Id |-> "", Err |-> "", Ret |-> "", ch |-> Nil,
               owed |-> FALSE]]
  /\ connectLog = [s \in SigNames |-> <<>>]
  /\ delivered = [e \in Emitters |-> <<>>]
  /\ lostRet = {}
  /\ watchdog = [k \in WdKeys |-> NoWatchdog]

Procs == 1..NumProcs

InitLock ==
  /\ mutex = [writer |-> 0, readers |-> {}]
  /\ rpc = [p \in Procs |-> [pc |-> "idle"]]

\* The site's node directory exists and is empty.
InitStore ==
  /\ fs = (<<>> :> [kind |-> "dir", data |-> <<>>, bad |-> FALSE])
  /\ storeCalls = 0
  /\ sreply = [op |-> "none"]

InitConfig ==
  /\ configs = EmptyMap
  /\ creply = [op |-> "none"]

Init ==
  InitRegistry /\ InitSignal /\ InitLock /\ InitStore /\ InitConfig
    /\ crashed = FALSE

\* The daemon dies (an unrecovered panic or a runtime throw in a goroutine
\* ends the process): every call ends with it and the tables are gone.
Crash ==
  /\ crashed' = TRUE
  /\ subscriptions' = [s \in SigNames |-> <<>>]
  /\ subsMade' = FALSE
  /\ subscriberMade' = FALSE
  /\ subscriber' = [id \in SubIds |-> Nil]
  /\ subscriberRet' = [id \in SubIds |-> Nil]
  /\ retMade' = FALSE
  /\ conn' = [c \in Connectors |->
                [pc |-> "idle", Id |-> "", Signal |-> "", old |-> <<>>]]
  /\ emit' = [e \in Emitters |->
                [pc |-> "idle", Name |-> "", Args |-> "", n |-> 0, subs |-> <<>>,
                 i |-> 0, ch |-> Nil, retChan |-> Nil, ret |-> <<>>,
                 err |-> ""]]
  /\ wait' = [w \in Waiters |->
                [pc |-> "idle", subscriber |-> "", ch |-> Nil,
                 signal |-> NoSignal]]
  /\ fin' = [f \in Finishers |->
               [pc |-> "idle", Id |-> "", Err |-> "", Ret |-> "", ch |-> Nil,
                owed |-> FALSE]]
  /\ connectLog' = [s \in SigNames |-> <<>>]
  /\ delivered' = [e \in Emitters |-> <<>>]
  /\ lostRet' = {}
  /\ watchdog' = [k \in WdKeys |-> NoWatchdog]
  /\ UNCHANGED <<regVars, extVars>>

NextRegistry ==
  \/ \E nt \in RegInputs : RegisterNodeType(nt)
  \/ \E id \in TypeIds : GetNodeType(id)

SpecRegistry == Init /\ [][NextRegistry]_vars

NextAddable ==
  \/ \E nt \in AddableInputs : RegisterNodeType(nt)
  \/ \E p \in ParentIds : \E o \in Orders(DOMAIN NodeTypes) :
       GetAddableNodeTypes(p, o)

SpecAddable == Init /\ [][NextAddable]_vars


-----------------------------------------------------------------------------
(* The registry under concurrency: net/rpc serves every call in a goroutine *)
(* of its own.  Each statement of RegisterNodeType is a step, so that what  *)
(* keeps the calls apart is the mutex and nothing else.                     *)

F11 == [Id |-> "f1", Def |-> "d1"]
F12 == [Id |-> "f1", Def |-> "d2"]
F21 == [Id |-> "f2", Def |-> "d1"]
F22 == [Id |-> "f2", Def |-> "d2"]
LockInputs ==
  [Id : {"t1", "t2"}, Hide : {FALSE}, AddableTo : {<<Dot>>},
   Fields : {<<>>, <<F11>>, <<F12>>, <<F11, F21>>, <<F22, F12>>}]

NewCall(op, arg, pc) ==
  [pc |-> pc, op |-> op, arg |-> arg, i |-> 0, err |-> FALSE, val |-> <<>>,
   partial |-> FALSE]

\* The type registered under id t has a field that Config.NodeFields does
\* not hold: the registration's loop (service.go:421-427) has not got to it.
Partial(t) ==
  \E i \in 1..Len(NodeTypes[t].Fields) :
    LET a == NodeTypes[t].Fields[i]
        fid == heap[a].Id
    IN  fid \notin DOMAIN NodeFields \/ NodeFields[fid] # a

\* The RPC arrives.
CallRegister(p, nt) ==
  /\ ~crashed
  /\ rpc[p].pc = "idle"
  /\ \A b \in 1..(p - 1) : rpc[b].pc # "idle"
  /\ rpc' = [rpc EXCEPT ![p] = NewCall("RegisterNodeType", nt, "Lock")]
  /\ UNCHANGED <<mutex, regVars, sigVars, storeVars, cfgVars, crashed>>

CallGetNodeType(p, nodeTypeID) ==
  /\ ~crashed
  /\ rpc[p].pc = "idle"
  /\ \A b \in 1..(p - 1) : rpc[b].pc # "idle"
  /\ rpc' = [rpc EXCEPT ![p] = NewCall("GetNodeType", nodeTypeID, "RLock")]
  /\ UNCHANGED <<mutex, regVars, sigVars, storeVars, cfgVars, crashed>>

CallGetAddable(p, nodeType) ==
  /\ ~crashed
  /\ rpc[p].pc = "idle"
  /\ \A b \in 1..(p - 1) : rpc[b].pc # "idle"
  /\ rpc' = [rpc EXCEPT ![p] = NewCall("GetAddableNodeTypes", nodeType, "RLock")]
  /\ UNCHANGED <<mutex, regVars, sigVars, storeVars, cfgVars, crashed>>

\* sync.RWMutex: Lock waits until there is no writer and no reader, RLock
\* until there is no writer.
CanLockUnguarded(p) == TRUE
CanLock(p) == mutex.writer = 0 /\ mutex.readers = {}
CanRLock(p) == mutex.writer = 0

\* service.go:411  m.mutex.Lock()
Lock(p) ==
  /\ rpc[p].pc = "Lock"
  /\ CanLock(p)
  /\ mutex' = [mutex EXCEPT !.writer = p]
  /\ rpc' = [rpc EXCEPT ![p].pc = "L413"]
  /\ UNCHANGED <<regVars, sigVars, storeVars, cfgVars, crashed>>

\* service.go:413-415  the duplicate check
RegCheck(p) ==
  /\ rpc[p].pc = "L413"
  /\ rpc' = IF HasNodeType(rpc[p].arg.Id)
            THEN [rpc EXCEPT ![p].pc = "Unlock", ![p].err = TRUE]
            ELSE [rpc EXCEPT ![p].pc = "L416"]
  /\ UNCHANGED <<mutex, regVars, sigVars, storeVars, cfgVars, crashed>>

\* service.go:416-419  the maps are made on the first registration
RegMakeMaps(p) ==
  /\ rpc[p].pc = "L416"
  /\ mapsMade' = TRUE
  /\ rpc' = [rpc EXCEPT ![p].pc = "L420"]
  /\ UNCHANGED <<NodeTypes, NodeFields, heap, regCalls, reply, firstType,
                 firstField, mutex, sigVars, storeVars, cfgVars, crashed>>

\* service.go:420  m.Settings.Config.NodeTypes[nodeType.Id] = nodeType
\* The fields decoded for the call of goroutine p live at <<p, 1>>, <<p, 2>>..
RegInsert(p) ==
  /\ rpc[p].pc = "L420"
  /\ LET nt == rpc[p].arg
         incoming == [i \in 1..Len(nt.Fields) |-> <<p, i>>]
     IN  /\ heap' = [a \in SeqToSet(incoming) |-> nt.Fields[a[2]]] @@ heap
         /\ NodeTypes' = (nt.Id :> [Id |-> nt.Id, Hide |-> nt.Hide,
                                    AddableTo |-> nt.AddableTo,
                                    Fields |-> incoming]) @@ NodeTypes
  /\ rpc' = [rpc EXCEPT ![p].pc = "L421", ![p].i = 1]
  /\ UNCHANGED <<NodeFields, mapsMade, regCalls, reply, firstType, firstField,
                 mutex, sigVars, storeVars, cfgVars, crashed>>

\* service.go:421-427  one iteration of the loop over nodeType.Fields; after
\* the last one, return (service.go:428).
RegField(p) ==
  /\ rpc[p].pc = "L421"
  /\ LET id == rpc[p].arg.Id
         i == rpc[p].i
         fields == NodeTypes[id].Fields
     IN  IF i > Len(fields)
         THEN /\ rpc' = [rpc EXCEPT ![p].pc = "Unlock"]
              /\ UNCHANGED <<NodeTypes, NodeFields>>
         ELSE LET fid == heap[fields[i]].Id
              IN  /\ rpc' = [rpc EXCEPT ![p].i = i + 1]
                  /\ IF fid \in DOMAIN NodeFields
                     THEN /\ NodeTypes' =
                               [NodeTypes EXCEPT ![id].Fields[i] =
                                  DedupField(NodeFields[fid], fields[i])]
                          /\ UNCHANGED NodeFields
                     ELSE /\ NodeFields' = (fid :> fields[i]) @@ NodeFields
                          /\ UNCHANGED NodeTypes
  /\ UNCHANGED <<mapsMade, heap, regCalls, reply, firstType, firstField,
                 mutex, sigVars, storeVars, cfgVars, crashed>>

\* service.go:412  defer m.mutex.Unlock(), run when the handler returns
Unlock(p) ==
  /\ rpc[p].pc = "Unlock"
  /\ mutex' = [mutex EXCEPT !.writer = 0]
  /\ rpc' = [rpc EXCEPT ![p].pc = "done"]
  /\ UNCHANGED <<regVars, sigVars, storeVars, cfgVars, crashed>>

\* service.go:392 and 400  i.mutex.RLock()
RLock(p) ==
  /\ rpc[p].pc = "RLock"
  /\ CanRLock(p)
  /\ mutex' = [mutex EXCEPT !.readers = @ \cup {p}]
  /\ rpc' = [rpc EXCEPT ![p].pc = "read"]
  /\ UNCHANGED <<regVars, sigVars, storeVars, cfgVars, crashed>>

\* service.go:402-406  the registered object is copied into the reply
ReadNodeType(p) ==
  /\ rpc[p].pc = "read"
  /\ rpc[p].op = "GetNodeType"
  /\ rpc' = IF rpc[p].arg \in DOMAIN NodeTypes
            THEN [rpc EXCEPT ![p].pc = "RUnlock",
                             ![p].val = NodeTypes[rpc[p].arg],
                             ![p].partial = Partial(rpc[p].arg)]
            ELSE [rpc EXCEPT ![p].pc = "RUnlock", ![p].err = TRUE]
  /\ UNCHANGED <<mutex, regVars, sigVars, storeVars, cfgVars, crashed>>

\* service.go:394  findAddableNodeTypes over the registered types
ReadAddable(p, order) ==
  /\ rpc[p].pc = "read"
  /\ rpc[p].op = "GetAddableNodeTypes"
  /\ LET r == findAddableNodeTypes(rpc[p].arg, NodeTypes, order)
     IN  rpc' = [rpc EXCEPT ![p].pc = "RUnlock",
                            ![p].val = r.types,
                            ![p].partial =
                              \E t \in SeqToSet(r.types) : Partial(t)]
  /\ UNCHANGED <<mutex, regVars, sigVars, storeVars, cfgVars, crashed>>

\* service.go:393 and 401  defer i.mutex.RUnlock()
RUnlock(p) ==
  /\ rpc[p].pc = "RUnlock"
  /\ mutex' = [mutex EXCEPT !.readers = @ \ {p}]
  /\ rpc' = [rpc EXCEPT ![p].pc = "done"]
  /\ UNCHANGED <<regVars, sigVars, storeVars, cfgVars, crashed>>

NextConcurrent ==
  \/ \E p \in Procs, nt \in LockInputs : CallRegister(p, nt)
  \/ \E p \in Procs, id \in {"t1", "t2"} : CallGetNodeType(p, id)
  \/ \E p \in Procs : CallGetAddable(p, <<"n">>)
  \/ \E p \in Procs :
       \/ Lock(p)
       \/ RegCheck(p)
       \/ RegMakeMaps(p)
       \/ RegInsert(p)
       \/ RegField(p)
       \/ Unlock(p)
       \/ RLock(p)
       \/ ReadNodeType(p)
       \/ RUnlock(p)
  \/ \E p \in Procs : \E o \in Orders(DOMAIN NodeTypes) : ReadAddable(p, o)

SpecConcurrent == Init /\ [][NextConcurrent]_vars


-----------------------------------------------------------------------------
(* The node store: service.go, getNode .. RenameNode, over one site's node *)
(* directory.  A path argument is a string; a location in the file tree is  *)
(* the sequence of the names from the site's node directory down.           *)

\* Path arguments.  Every one starts with the separator, as the callers'
\* paths do; two of them are unclean spellings of "/a".
PathArgs ==
  {<<"/">>, <<"/", "a">>, <<"/", "a", "a">>, <<"/", "a", "/", "a">>,
   <<"/", "a", "/">>, <<"/", "/", "a">>}

\* File names: the node document and a data file.
NodeJson == <<"node.json">>
FileArgs == {NodeJson, <<"a">>}

\* The bytes of a JSON document, as its tokens: the punctuation and the
\* members "key":"value".
Open == <<"{">>
Close == <<"}">>
Comma == <<",">>
Member(k, v) == <<k, v>>
NodeDocs ==
  {<<Open, Member("Type", <<"d">>), Close>>,
   <<Open, Member("Type", <<"d">>), Comma, Member("Title", <<"x">>), Close>>}

\* filepath.Join and the Clean it ends with, for the names of a path: the
\* elements between separators, the empty ones dropped.
RECURSIVE SplitFrom(_, _, _, _)
SplitFrom(str, k, cur, acc) ==
  IF k > Len(str)
  THEN IF cur = <<>> THEN acc ELSE Append(acc, cur)
  ELSE IF str[k] = "/"
       THEN SplitFrom(str, k + 1, <<>>,
                      IF cur = <<>> THEN acc ELSE Append(acc, cur))
       ELSE SplitFrom(str, k + 1, Append(cur, str[k]), acc)
Components(str) == SplitFrom(str, 1, <<>>, <<>>)

\* The cleaned path string of a location.
RECURSIVE Render(_)
Render(loc) ==
  IF loc = <<>> THEN <<>> ELSE <<"/">> \o Head(loc) \o Render(Tail(loc))
\* service.go:213 and 221  filepath.Join(path, file.Name())
JoinPath(path, name) == Render(Append(Components(path), name))

Parent(loc) == SubSeq(loc, 1, Len(loc) - 1)
IsUnder(loc, dir) == Len(dir) <= Len(loc) /\ SubSeq(loc, 1, Len(dir)) = dir
IsDirAt(f, loc) == loc \in DOMAIN f /\ f[loc].kind = "dir"
ChildNames(f, dir) ==
  {loc[Len(loc)] : loc \in {l \in DOMAIN f : Len(l) = Len(dir) + 1 /\ IsUnder(l, dir)}}

\* Resolving a location: found, or ENOTDIR when a name on the way is a
\* regular file, or ENOENT.
Lookup(f, loc) ==
  IF loc \in DOMAIN f THEN "ok"
  ELSE IF \E k \in 0..(Len(loc) - 1) :
            /\ SubSeq(loc, 1, k) \in DOMAIN f
            /\ f[SubSeq(loc, 1, k)].kind = "file"
       THEN "ENOTDIR"
       ELSE "ENOENT"

\* ioutil.ReadFile
ReadFile(f, loc) ==
  LET st == Lookup(f, loc)
  IN  IF st # "ok" THEN [err |-> st, data |-> <<>>]
      ELSE IF f[loc].kind = "dir" THEN [err |-> "EISDIR", data |-> <<>>]
      ELSE IF f[loc].bad THEN [err |-> "EACCES", data |-> <<>>]
      ELSE [err |-> "", data |-> f[loc].data]

\* os.IsNotExist: true of ENOENT only
IsNotExist(err) == err = "ENOENT"

NewDir == [kind |-> "dir", data |-> <<>>, bad |-> FALSE]

\* os.MkdirAll
MkdirAll(f, loc) ==
  IF \E k \in 0..Len(loc) :
       /\ SubSeq(loc, 1, k) \in DOMAIN f
       /\ f[SubSeq(loc, 1, k)].kind = "file"
  THEN [err |-> "ENOTDIR", fs |-> f]
  ELSE [err |-> "",
        fs |-> [l \in {SubSeq(loc, 1, k) : k \in 0..Len(loc)} \ DOMAIN f |-> NewDir]
                 @@ f]

\* ioutil.WriteFile into an existing directory
WriteFile(f, loc, data) ==
  IF loc \in DOMAIN f /\ f[loc].kind = "dir" THEN [err |-> "EISDIR", fs |-> f]
  ELSE IF loc \in DOMAIN f /\ f[loc].bad THEN [err |-> "EACCES", fs |-> f]
  ELSE [err |-> "",
        fs |-> (loc :> [kind |-> "file", data |-> data, bad |-> FALSE]) @@ f]

\* The tree with what is at src moved to dst (whatever was at dst is gone).
CopyTree(f, src, dst) ==
  LET moved == {l \in DOMAIN f : IsUnder(l, src)}
      Target(l) == dst \o SubSeq(l, Len(src) + 1, Len(l))
  IN  [l \in {Target(m) : m \in moved} \cup DOMAIN f |->
         IF IsUnder(l, dst)
         THEN f[src \o SubSeq(l, Len(dst) + 1, Len(l))]
         ELSE f[l]]
MoveTree(f, src, dst) ==
  LET moved == {l \in DOMAIN f : IsUnder(l, src)}
      Target(l) == dst \o SubSeq(l, Len(src) + 1, Len(l))
  IN  [l \in {Target(m) : m \in moved}
               \cup {k \in DOMAIN f : ~IsUnder(k, src) /\ ~IsUnder(k, dst)} |->
         IF IsUnder(l, dst)
         THEN f[src \o SubSeq(l, Len(dst) + 1, Len(l))]
         ELSE f[l]]

\* os.Rename (rename(2)); the parent of dst exists
Rename(f, src, dst) ==
  IF Lookup(f, src) # "ok" THEN [err |-> Lookup(f, src), fs |-> f]
  ELSE IF src = dst THEN [err |-> "", fs |-> f]
  ELSE IF IsUnder(dst, src) THEN [err |-> "EINVAL", fs |-> f]
  ELSE IF dst \notin DOMAIN f THEN [err |-> "", fs |-> MoveTree(f, src, dst)]
  ELSE IF f[src].kind = "dir" /\ f[dst].kind = "file"
       THEN [err |-> "ENOTDIR", fs |-> f]
  ELSE IF f[src].kind = "file" /\ f[dst].kind = "dir"
       THEN [err |-> "EISDIR", fs |-> f]
  ELSE IF f[dst].kind = "dir" /\ ChildNames(f, dst) # {}
       THEN [err |-> "ENOTEMPTY", fs |-> f]
  ELSE [err |-> "", fs |-> MoveTree(f, src, dst)]

\* service.go:201-202  bytes.Replace(node, "{", `{"Path":%q,`, 1)
FirstOpen(node) ==
  IF \E k \in 1..Len(node) : node[k] = Open
  THEN CHOOSE k \in 1..Len(node) :
         node[k] = Open /\ \A j \in 1..(k - 1) : node[j] # Open
  ELSE 0
Inject(node, path) ==
  LET k == FirstOpen(node)
  IN  IF k = 0 THEN node
      ELSE SubSeq(node, 1, k - 1)
             \o <<Open, Member("Path", path), Comma>>
             \o SubSeq(node, k + 1, Len(node))

\* The location of the node document of a path (service.go:193).
NodeLoc(path) == Append(Components(Tail(path)), NodeJson)

\* service.go:192-204
getNode(f, path) ==
  LET r == ReadFile(f, NodeLoc(path))
  IN  IF IsNotExist(r.err) THEN [node |-> Nil, err |-> ""]
      ELSE IF r.err # "" THEN [node |-> Nil, err |-> r.err]
      ELSE [node |-> Inject(r.data, path), err |-> ""]

\* service.go:242-248
GetNode(path) ==
  /\ ~crashed
  /\ LET r == getNode(fs, path)
     IN  sreply' = [op |-> "GetNode", path |-> path, node |-> r.node,
                    err |-> r.err]
  /\ UNCHANGED <<fs, storeCalls, regVars, sigVars, lockVars, cfgVars, crashed>>

\* ioutil.ReadDir returns the entries sorted by name.
NameLess(x, y) ==
  LET Rank(c) == IF c = "a" THEN 1 ELSE 2
  IN  \E k \in 1..(Len(x) + 1) :
        /\ \A j \in 1..(k - 1) : j <= Len(y) /\ x[j] = y[j]
        /\ \/ (k = Len(x) + 1 /\ Len(y) > Len(x))
           \/ (k <= Len(x) /\ k <= Len(y) /\ Rank(x[k]) < Rank(y[k]))
RECURSIVE SortNames(_)
SortNames(S) ==
  IF S = {} THEN <<>>
  ELSE LET m == CHOOSE x \in S : \A y \in S \ {x} : NameLess(x, y)
       IN  <<m>> \o SortNames(S \ {m})

\* service.go:221-222  the synthesized node of a directory
Placeholder(joined) ==
  <<Open, Member("Path", joined), Comma, Member("Type", <<"core.Path">>), Close>>

\* service.go:217-224  what one directory entry adds to the listing
ChildEntryNoDirCheck(name, node, isDir, joined) ==
  IF node # Nil THEN <<[name |-> name, node |-> node]>>
  ELSE <<[name |-> name, node |-> Placeholder(joined)]>>
ChildEntry(name, node, isDir, joined) ==
  IF node # Nil THEN <<[name |-> name, node |-> node]>>
  ELSE IF isDir THEN <<[name |-> name, node |-> Placeholder(joined)]>>
  ELSE <<>>

\* service.go:212-225  the loop over the entries.  The error of getNode is
\* dropped (service.go:213); err is still the nil of ReadDir (service.go:214).
RECURSIVE childrenFrom(_, _, _, _, _)
childrenFrom(f, path, files, k, nodes) ==
  IF k > Len(files) THEN nodes
  ELSE LET joined == JoinPath(path, files[k])
           node == getNode(f, joined).node
           isDir == IsDirAt(f, Append(Components(path), files[k]))
       IN  childrenFrom(f, path, files, k + 1,
                        nodes \o ChildEntry(files[k], node, isDir, joined))

\* service.go:207-226
getChildren(f, path) ==
  LET dir == Components(path)
      st == Lookup(f, dir)
  IN  IF st # "ok" THEN [nodes |-> <<>>, err |-> st]
      ELSE IF f[dir].kind # "dir" THEN [nodes |-> <<>>, err |-> "ENOTDIR"]
      ELSE [nodes |-> childrenFrom(f, path, SortNames(ChildNames(f, dir)), 1, <<>>),
            err |-> ""]

\* service.go:232-238.  from is history: the entry each node comes from.
GetChildren(path) ==
  /\ ~crashed
  /\ LET r == getChildren(fs, path)
     IN  sreply' = [op |-> "GetChildren", path |-> path,
                    val |-> [k \in 1..Len(r.nodes) |-> r.nodes[k].node],
                    from |-> [k \in 1..Len(r.nodes) |-> r.nodes[k].name],
                    err |-> r.err]
  /\ UNCHANGED <<fs, storeCalls, regVars, sigVars, lockVars, cfgVars, crashed>>

\* service.go:270-283
WriteNodeData(path, file, content) ==
  /\ ~crashed
  /\ storeCalls < MaxStoreCalls
  /\ storeCalls' = storeCalls + 1
  /\ LET dir == Components(Tail(path))
         m == MkdirAll(fs, dir)
         w == WriteFile(m.fs, Append(dir, file), content)
     IN  IF m.err # ""
         THEN /\ fs' = fs
              /\ sreply' = [op |-> "WriteNodeData", path |-> path, file |-> file,
                            err |-> "Could not create node directory"]
         ELSE /\ fs' = w.fs
              /\ sreply' = [op |-> "WriteNodeData", path |-> path, file |-> file,
                            err |-> IF w.err # ""
                                    THEN "Could not write node data" ELSE ""]
  /\ UNCHANGED <<regVars, sigVars, lockVars, cfgVars, crashed>>

\* service.go:302-314.  before is history: the tree the call found.
RenameNode(source, target) ==
  /\ ~crashed
  /\ storeCalls < MaxStoreCalls
  /\ storeCalls' = storeCalls + 1
  /\ LET src == Components(source)
         dst == Components(target)
         m == IF dst = <<>> THEN [err |-> "", fs |-> fs]
              ELSE MkdirAll(fs, Parent(dst))
         r == Rename(m.fs, src, dst)
     IN  IF m.err # ""
         THEN /\ fs' = fs
              /\ sreply' = [op |-> "RenameNode", source |-> source,
                            target |-> target, before |-> fs,
                            err |-> "Can't create parent directory"]
         ELSE /\ fs' = r.fs
              /\ sreply' = [op |-> "RenameNode", source |-> source,
                            target |-> target, before |-> fs,
                            err |-> IF r.err # "" THEN "Can't move node" ELSE ""]
  /\ UNCHANGED <<regVars, sigVars, lockVars, cfgVars, crashed>>

\* The environment: a file of the tree becomes unreadable (its permissions
\* are changed, or the disk fails under it).
IOFault(loc) ==
  /\ ~crashed
  /\ storeCalls < MaxStoreCalls
  /\ storeCalls' = storeCalls + 1
  /\ loc \in DOMAIN fs
  /\ fs[loc].kind = "file"
  /\ ~fs[loc].bad
  /\ fs' = [fs EXCEPT ![loc].bad = TRUE]
  /\ sreply' = [op |-> "none"]
  /\ UNCHANGED <<regVars, sigVars, lockVars, cfgVars, crashed>>

NextStore ==
  \/ \E path \in PathArgs : GetNode(path)
  \/ \E path \in PathArgs : GetChildren(path)
  \/ \E path \in PathArgs, file \in FileArgs, content \in NodeDocs :
       WriteNodeData(path, file, content)
  \/ \E source \in PathArgs, target \in PathArgs : RenameNode(source, target)
  \/ \E loc \in DOMAIN fs : IOFault(loc)

SpecStore == Init /\ [][NextStore]_vars


-----------------------------------------------------------------------------
(* The site configuration: service.go, getConfig and GetSiteConfig *)

\* Names: a module, a key and the dot.
NameChars == {"c", "k", "."}
RECURSIVE NamesUpTo(_)
NamesUpTo(n) ==
  IF n = 0 THEN {<<>>}
  ELSE LET shorter == NamesUpTo(n - 1)
       IN  shorter \cup {Append(str, c) : str \in {t \in shorter : Len(t) = n - 1},
                                          c \in NameChars}
ConfigNames == NamesUpTo(MaxNameLen)

\* Decoded JSON values: nil, a string, an object (map[string]interface{}).
Null == [t |-> "null"]
Str(v) == [t |-> "str", s |-> v]
Obj(m) == [t |-> "obj", m |-> m]
IsMap(target) == target.t = "obj"

\* The file <module>.json: missing, unreadable, not JSON, or a JSON value.
ConfigValues ==
  {Str("v"), Obj(<<"k">> :> Str("v")), Obj(<<"k">> :> Obj(<<"k">> :> Str("v")))}
FileStates ==
  {[st |-> "unreadable"], [st |-> "invalid"]}
    \cup {[st |-> "json", v |-> v] : v \in ConfigValues}
ConfigFiles == {EmptyMap} \cup {(<<"c">> :> f) : f \in FileStates}
FileOf(module) ==
  IF module \in DOMAIN configs THEN configs[module] ELSE [st |-> "absent"]

\* strings.Split(name, "."): every element, the empty ones too
RECURSIVE SplitDots(_, _, _, _)
SplitDots(str, k, cur, acc) ==
  IF k > Len(str) THEN Append(acc, cur)
  ELSE IF str[k] = "."
       THEN SplitDots(str, k + 1, <<>>, Append(acc, cur))
       ELSE SplitDots(str, k + 1, Append(cur, str[k]), acc)
Split(str) == SplitDots(str, 1, <<>>, <<>>)

\* strings.SplitN(name, ".", 2): cut at the first dot, if there is one
SplitN2(str) ==
  IF \E k \in 1..Len(str) : str[k] = "."
  THEN LET k == CHOOSE i \in 1..Len(str) :
                  str[i] = "." /\ \A j \in 1..(i - 1) : str[j] # "."
       IN  <<SubSeq(str, 1, k - 1), SubSeq(str, k + 1, Len(str))>>
  ELSE <<str>>

\* service.go:331-345  the loop over the elements of the name
RECURSIVE walk(_, _, _)
walk(target, subs, k) ==
  IF k > Len(subs) THEN target
  ELSE IF subs[k] = <<>> THEN target
  ELSE IF ~IsMap(target) THEN Null
  ELSE IF subs[k] \notin DOMAIN target.m THEN Null
  ELSE walk(target.m[subs[k]], subs, k + 1)

\* service.go:318-353
getConfig(file, name) ==
  IF file.st = "absent" THEN [val |-> Nil, err |-> ""]
  ELSE IF file.st = "unreadable"
       THEN [val |-> Nil, err |-> "Could not read configuration"]
  ELSE IF file.st = "invalid"
       THEN [val |-> Nil, err |-> "Could not parse configuration"]
  ELSE [val |-> [Value |-> walk(file.v, Split(name), 1)], err |-> ""]

\* service.go:357-370.  parts[1] of a one-element slice panics.
GetSiteConfig(name) ==
  /\ ~crashed
  /\ LET parts == SplitN2(name)
     IN  IF Len(parts) < 2
         THEN /\ creply' = [op |-> "GetSiteConfig", name |-> name,
                            panic |-> TRUE, err |-> "", val |-> Nil]
              /\ crashed' = TRUE
         ELSE LET r == getConfig(FileOf(parts[1]), parts[2])
              IN  /\ creply' = [op |-> "GetSiteConfig", name |-> name,
                                panic |-> FALSE, err |-> r.err, val |-> r.val]
                  /\ UNCHANGED crashed
  /\ UNCHANGED <<configs, regVars, sigVars, lockVars, storeVars>>

InitConfigFiles ==
  /\ InitRegistry /\ InitSignal /\ InitLock /\ InitStore
  /\ configs \in ConfigFiles
  /\ creply = [op |-> "none"]
  /\ crashed = FALSE

NextConfig == \E name \in ConfigNames : GetSiteConfig(name)

SpecConfig == InitConfigFiles /\ [][NextConfig]_vars


-----------------------------------------------------------------------------
(* The signal bus, continued: the handlers.  None of them takes m.mutex. *)
(* The calls of one kind are interchangeable, so call number k+1 of a kind *)
(* is only started once call number k has been.                           *)

Live == ~crashed

\* The number of calls started so far.
Started ==
  Cardinality({c \in Connectors : conn[c].pc # "idle"})
    + Cardinality({e \in Emitters : emit[e].pc # "idle"})
    + Cardinality({w \in Waiters : wait[w].pc # "idle"})
    + Cardinality({f \in Finishers : fin[f].pc # "idle"})

\* The result channels consumed by a WaitSignal of subscriber id and not yet
\* answered by a FinishSignal (the k-th delivery of emitter e carries
\* RetChan(e, k), and only the last delivery of an emission can be open).
inflight(id) ==
  {RetChan(e, Len(delivered[e])) :
     e \in {x \in Emitters :
              /\ delivered[x] # <<>>
              /\ ~delivered[x][Len(delivered[x])].answered
              /\ delivered[x][Len(delivered[x])].sub = id}}

\* ---- ConnectSignal, service.go:120-130 ----

\* A call that has returned: its locals are gone.
Returned(call) == [call EXCEPT !.pc = "done", !.old = <<>>]

\* service.go:121  if m.subscriptions == nil
ConnectSignal(c, id, sig) ==
  /\ Live
  /\ conn[c].pc = "idle"
  /\ \A b \in 1..(c - 1) : conn[b].pc # "idle"
  /\ Started < MaxBusCalls
  /\ conn' = [conn EXCEPT ![c] =
                [pc |-> IF subsMade THEN "L125r" ELSE "L122",
                 Id |-> id, Signal |-> sig, old |-> <<>>]]
  /\ UNCHANGED <<subscriptions, subsMade, subscriberMade, subscriber,
                 subscriberRet, retMade, emit, wait, fin, connectLog,
                 delivered, lostRet, watchdog,
                 regVars, extVars, crashed>>

\* service.go:122  m.subscriptions = make(map[string][]string)
ConnectMakeSubscriptions(c) ==
  /\ Live
  /\ conn[c].pc = "L122"
  /\ subscriptions' = [s \in SigNames |-> <<>>]
  /\ subsMade' = TRUE
  /\ conn' = [conn EXCEPT ![c].pc = "L123"]
  /\ UNCHANGED <<subscriberMade, subscriber, subscriberRet, retMade, emit,
                 wait, fin, connectLog, delivered, lostRet,
                 watchdog,
                 regVars, extVars, crashed>>

\* service.go:123  m.subscriber = make(map[string]chan *signal)
ConnectMakeSubscriber(c) ==
  /\ Live
  /\ conn[c].pc = "L123"
  /\ subscriber' = [id \in SubIds |-> Nil]
  /\ subscriberMade' = TRUE
  /\ conn' = [conn EXCEPT ![c].pc = "L125r"]
  /\ UNCHANGED <<subscriptions, subsMade, subscriberRet, retMade, emit,
                 wait, fin, connectLog, delivered, lostRet,
                 watchdog,
                 regVars, extVars, crashed>>

\* service.go:125, the right-hand side: m.subscriptions[args.Signal] is read
ConnectReadList(c) ==
  /\ Live
  /\ conn[c].pc = "L125r"
  /\ conn' = [conn EXCEPT ![c].pc = "L125w",
                          ![c].old = subscriptions[conn[c].Signal]]
  /\ UNCHANGED <<subscriptions, subsMade, subscriberMade, subscriber,
                 subscriberRet, retMade, emit, wait, fin, connectLog,
                 delivered, lostRet, watchdog,
                 regVars, extVars, crashed>>

\* service.go:125  append(m.subscriptions[args.Signal], args.Id)
PrependId(old, id) == <<id>> \o old
AppendId(old, id) == Append(old, id)

\* service.go:125, the assignment: the appended list is stored
ConnectAppend(c) ==
  /\ Live
  /\ conn[c].pc = "L125w"
  /\ subscriptions' =
       [subscriptions EXCEPT ![conn[c].Signal] = AppendId(conn[c].old, conn[c].Id)]
  /\ connectLog' =
       [connectLog EXCEPT ![conn[c].Signal] = Append(@, conn[c].Id)]
  /\ conn' = [conn EXCEPT ![c].pc = "L126", ![c].old = <<>>]
  /\ UNCHANGED <<subsMade, subscriberMade, subscriber, subscriberRet,
                 retMade, emit, wait, fin, delivered, lostRet,
                 watchdog,
                 regVars, extVars, crashed>>

\* service.go:126  if _, ok := m.subscriber[args.Id]; !ok
ConnectLookupRemake(c) ==
  /\ Live
  /\ conn[c].pc = "L126"
  /\ conn' = [conn EXCEPT ![c].pc = "L127"]
  /\ UNCHANGED <<subscriptions, subsMade, subscriberMade, subscriber,
                 subscriberRet, retMade, emit, wait, fin, connectLog,
                 delivered, lostRet, watchdog, regVars, extVars, crashed>>

ConnectLookup(c) ==
  /\ Live
  /\ conn[c].pc = "L126"
  /\ conn' = [conn EXCEPT ![c] =
                IF subscriber[conn[c].Id] # Nil THEN Returned(@)
                ELSE [@ EXCEPT !.pc = "L127"]]
  /\ UNCHANGED <<subscriptions, subsMade, subscriberMade, subscriber,
                 subscriberRet, retMade, emit, wait, fin, connectLog,
                 delivered, lostRet, watchdog,
                 regVars, extVars, crashed>>

\* service.go:127  m.subscriber[args.Id] = make(chan *signal)
\* An assignment to an entry of the nil map panics.
ConnectMakeChan(c) ==
  /\ Live
  /\ conn[c].pc = "L127"
  /\ IF subscriberMade
     THEN /\ subscriber' = [subscriber EXCEPT ![conn[c].Id] = SubChan(c)]
          /\ conn' = [conn EXCEPT ![c] = Returned(@)]
          /\ UNCHANGED <<subscriptions, subsMade, subscriberMade,
                         subscriberRet, retMade, emit, wait, fin, connectLog,
                         delivered, lostRet, watchdog,
                 regVars, extVars, crashed>>
     ELSE Crash

\* ---- EmitSignal, service.go:137-160 ----

\* service.go:138  *ret = make([][]byte, len(m.subscriptions[args.Name]))
EmitSignal(e, name, args) ==
  /\ Live
  /\ emit[e].pc = "idle"
  /\ \A b \in 1..(e - 1) : emit[b].pc # "idle"
  /\ Started < MaxBusCalls
  /\ emit' = [emit EXCEPT ![e].pc = "L139", ![e].Name = name,
                          ![e].Args = args,
                          ![e].n = Len(subscriptions[name]),
                          ![e].ret = [k \in 1..Len(subscriptions[name]) |-> ""]]
  /\ UNCHANGED <<subscriptions, subsMade, subscriberMade, subscriber,
                 subscriberRet, retMade, conn, wait, fin, connectLog,
                 delivered, lostRet, watchdog,
                 regVars, extVars, crashed>>

\* service.go:139  range m.subscriptions[args.Name]: the list is read once
EmitRange(e) ==
  /\ Live
  /\ emit[e].pc = "L139"
  /\ emit' = [emit EXCEPT ![e].pc = "L140", ![e].i = 1,
                          ![e].subs = subscriptions[emit[e].Name]]
  /\ UNCHANGED <<subscriptions, subsMade, subscriberMade, subscriber,
                 subscriberRet, retMade, conn, wait, fin, connectLog,
                 delivered, lostRet, watchdog,
                 regVars, extVars, crashed>>

\* service.go:141-150: done := false, and the goroutine that shares it
Spawn(wd, k) == [wd EXCEPT ![k] = [pc |-> "sleep1", done |-> FALSE, logged |-> 0]]

\* service.go:139-151: the next subscriber of the list, a fresh result
\* channel, and the subscriber's channel m.subscriber[id]; after the last
\* subscriber, return nil (service.go:159).
EmitNext(e) ==
  /\ Live
  /\ emit[e].pc = "L140"
  /\ emit' = IF emit[e].i > Len(emit[e].subs)
             THEN [emit EXCEPT ![e].pc = "done", ![e].i = 0]
             ELSE [emit EXCEPT ![e].pc = "send",
                               ![e].retChan = RetChan(e, emit[e].i),
                               ![e].ch = subscriber[emit[e].subs[emit[e].i]]]
  /\ watchdog' = IF emit[e].i > Len(emit[e].subs)
                 THEN watchdog
                 ELSE Spawn(watchdog, <<e, emit[e].i>>)
  /\ UNCHANGED <<subscriptions, subsMade, subscriberMade, subscriber,
                 subscriberRet, retMade, conn, wait, fin, connectLog,
                 delivered, lostRet, regVars, extVars, crashed>>

\* service.go:151-152: once the send is done, receive from retChan
AfterSendNoWait(er) == [er EXCEPT !.pc = "L140", !.i = @ + 1, !.ch = Nil]
AfterSend(er) == [er EXCEPT !.pc = "recv", !.ch = Nil]

\* service.go:153-157: the result received from retChan
AfterAnswerIgnoreError(er, r) ==
  [er EXCEPT !.pc = "L140", !.i = @ + 1, !.ret[er.i] = r.Ret, !.retChan = Nil]
AfterAnswer(er, r) ==
  IF Len(r.Error) > 0
  THEN [er EXCEPT !.pc = "done", !.i = 0, !.retChan = Nil,
                  !.err = "Received error as signal response"]
  ELSE [er EXCEPT !.pc = "L140", !.i = @ + 1, !.ret[er.i] = r.Ret,
                  !.retChan = Nil]

\* service.go:153-157: done = true is reached by a result without an error
\* only
SetDone(wd, k, r) ==
  IF Len(r.Error) > 0 THEN wd ELSE [wd EXCEPT ![k].done = TRUE]

\* service.go:174 and 185: the key of m.subscriberRet is the subscriber id
RetKeyShared(id) == "s1"
RetKey(id) == id

\* ---- WaitSignal, service.go:167-176 ----

\* service.go:168  <-m.subscriber[subscriber]: the channel is looked up
WaitLookup(w, sub) ==
  [wait EXCEPT ![w].pc = "recv", ![w].subscriber = sub,
               ![w].ch = subscriber[sub]]

WaitSignal(w, sub) ==
  /\ Live
  /\ wait[w].pc = "idle"
  /\ \A b \in 1..(w - 1) : wait[b].pc # "idle"
  /\ Started < MaxBusCalls
  /\ wait' = WaitLookup(w, sub)
  /\ UNCHANGED <<subscriptions, subsMade, subscriberMade, subscriber,
                 subscriberRet, retMade, conn, emit, fin, connectLog,
                 delivered, lostRet, watchdog,
                 regVars, extVars, crashed>>

\* service.go:151 and 168: the send of an EmitSignal and the receive of a
\* WaitSignal on the same unbuffered channel happen together.
Deliver(e, w) ==
  /\ Live
  /\ emit[e].pc = "send"
  /\ wait[w].pc = "recv"
  /\ emit[e].ch # Nil
  /\ emit[e].ch = wait[w].ch
  /\ emit' = [emit EXCEPT ![e] = AfterSend(emit[e])]
  /\ wait' = [wait EXCEPT ![w].pc = "L171", ![w].ch = Nil,
                          ![w].signal = [Name |-> emit[e].Name,
                                         Args |-> emit[e].Args,
                                         Ret |-> emit[e].retChan]]
  /\ delivered' = [delivered EXCEPT ![e] =
                     Append(@, [sub |-> wait[w].subscriber, w |-> w,
                                answered |-> FALSE, by |-> "", err |-> "",
                                f |-> 0, ret |-> ""])]
  /\ UNCHANGED <<subscriptions, subsMade, subscriberMade, subscriber,
                 subscriberRet, retMade, conn, fin, connectLog, lostRet,
                 watchdog,
                 regVars, extVars, crashed>>

\* The result channels some EmitSignal is blocked receiving from.
Pending == {emit[e].retChan : e \in {x \in Emitters : emit[x].pc = "recv"}}

\* service.go:171  if m.subscriberRet == nil
WaitCheckRet(w) ==
  /\ Live
  /\ wait[w].pc = "L171"
  /\ wait' = [wait EXCEPT ![w].pc = IF retMade THEN "L174" ELSE "L172"]
  /\ UNCHANGED <<subscriptions, subsMade, subscriberMade, subscriber,
                 subscriberRet, retMade, conn, emit, fin, connectLog,
                 delivered, lostRet, watchdog,
                 regVars, extVars, crashed>>

\* service.go:172  m.subscriberRet = make(map[string]chan emitRet)
WaitMakeRet(w) ==
  /\ Live
  /\ wait[w].pc = "L172"
  /\ subscriberRet' = [id \in SubIds |-> Nil]
  /\ retMade' = TRUE
  /\ lostRet' = lostRet \cup ({subscriberRet[id] : id \in SubIds} \cap Pending)
  /\ wait' = [wait EXCEPT ![w].pc = "L174"]
  /\ UNCHANGED <<subscriptions, subsMade, subscriberMade, subscriber, conn,
                 emit, fin, connectLog, delivered, watchdog,
                 regVars, extVars, crashed>>

\* service.go:174-175  m.subscriberRet[subscriber] = signal.Ret; return nil
WaitRecord(w) ==
  /\ Live
  /\ wait[w].pc = "L174"
  /\ subscriberRet' =
       [subscriberRet EXCEPT ![RetKey(wait[w].subscriber)] = wait[w].signal.Ret]
  /\ lostRet' = lostRet \cup
       (({subscriberRet[RetKey(wait[w].subscriber)]} \ {wait[w].signal.Ret})
          \cap Pending)
  /\ wait' = [wait EXCEPT ![w].pc = "done", ![w].signal.Ret = Nil]
  /\ UNCHANGED <<subscriptions, subsMade, subscriberMade, subscriber,
                 retMade, conn, emit, fin, connectLog, delivered, watchdog,
                 regVars, extVars, crashed>>

\* ---- FinishSignal, service.go:184-187 ----

\* service.go:185  m.subscriberRet[args.Id] <- ..: the channel is looked up
FinishLookup(f, id, err, ret) ==
  [fin EXCEPT ![f] =
     [pc |-> "send", Id |-> id, Err |-> err, Ret |-> ret,
      ch |-> subscriberRet[RetKey(id)], owed |-> inflight(id) # {}]]

FinishSignal(f, id, err, ret) ==
  /\ Live
  /\ fin[f].pc = "idle"
  /\ \A b \in 1..(f - 1) : fin[b].pc # "idle"
  /\ Started < MaxBusCalls
  /\ fin' = FinishLookup(f, id, err, ret)
  /\ UNCHANGED <<subscriptions, subsMade, subscriberMade, subscriber,
                 subscriberRet, retMade, conn, emit, wait, connectLog,
                 delivered, lostRet, watchdog,
                 regVars, extVars, crashed>>

\* service.go:185 and 152-157: the send of a FinishSignal and the receive of
\* the EmitSignal blocked on that result channel happen together; then
\* FinishSignal returns nil and EmitSignal goes on.  (*ret)[i] with i past
\* the length read at service.go:138 panics.
Answer(f, e) ==
  /\ Live
  /\ fin[f].pc = "send"
  /\ emit[e].pc = "recv"
  /\ fin[f].ch # Nil
  /\ fin[f].ch = emit[e].retChan
  /\ LET r == [Ret |-> fin[f].Ret, Error |-> fin[f].Err]
         er == AfterAnswer(emit[e], r)
     IN  IF er.pc # "done" /\ emit[e].i > emit[e].n
         THEN Crash
         ELSE /\ fin' = [fin EXCEPT ![f].pc = "done", ![f].ch = Nil]
              /\ delivered' = [delivered EXCEPT ![e][Len(delivered[e])] =
                                 [@ EXCEPT !.answered = TRUE, !.by = fin[f].Id,
                                           !.err = fin[f].Err, !.f = f,
                                           !.ret = fin[f].Ret]]
              /\ emit' = [emit EXCEPT ![e] = er]
              /\ watchdog' = SetDone(watchdog, <<e, emit[e].i>>, r)
              /\ UNCHANGED <<subscriptions, subsMade, subscriberMade,
                             subscriber, subscriberRet, retMade, conn, wait,
                             connectLog, lostRet, regVars, extVars, crashed>>

\* ---- data races ----
\* The maps are read and written without synchronisation.  Go's runtime
\* aborts the process ("concurrent map writes", "concurrent map read and map
\* write") when it catches a write to a map overlapping another access to
\* it; uncaught, the accesses take effect in either order, which the
\* interleaving of the steps above covers.

WritesSubscriptions == {c \in Connectors : conn[c].pc = "L125w"}
AccessesSubscriptions ==
  {<<"conn", c>> : c \in {x \in Connectors : conn[x].pc \in {"L125r", "L125w"}}}
    \cup {<<"emit", e>> : e \in {x \in Emitters : emit[x].pc = "L139"}}
WritesSubscriber == {c \in Connectors : conn[c].pc = "L127" /\ subscriberMade}
AccessesSubscriber ==
  {<<"conn", c>> : c \in {x \in Connectors : conn[x].pc \in {"L126", "L127"}}}
    \cup {<<"emit", e>> : e \in {x \in Emitters :
                                   /\ emit[x].pc = "L140"
                                   /\ emit[x].i <= Len(emit[x].subs)}}
WritesSubscriberRet == {w \in Waiters : wait[w].pc = "L174"}

RaceCrash ==
  /\ Live
  /\ \/ \E c \in WritesSubscriptions : AccessesSubscriptions \ {<<"conn", c>>} # {}
     \/ \E c \in WritesSubscriber : AccessesSubscriber \ {<<"conn", c>>} # {}
     \/ \E w \in WritesSubscriberRet : WritesSubscriberRet \ {w} # {}
  /\ Crash

NextSignal ==
  \/ \E c \in Connectors, id \in SubIds, sig \in SigNames :
       ConnectSignal(c, id, sig)
  \/ \E c \in Connectors :
       \/ ConnectMakeSubscriptions(c)
       \/ ConnectMakeSubscriber(c)
       \/ ConnectReadList(c)
       \/ ConnectAppend(c)
       \/ ConnectLookup(c)
       \/ ConnectMakeChan(c)
  \/ \E e \in Emitters, name \in SigNames, args \in ArgsSet :
       EmitSignal(e, name, args)
  \/ \E e \in Emitters : EmitRange(e) \/ EmitNext(e)
  \/ \E w \in Waiters, sub \in SubIds : WaitSignal(w, sub)
  \/ \E e \in Emitters, w \in Waiters : Deliver(e, w)
  \/ \E w \in Waiters : WaitCheckRet(w) \/ WaitMakeRet(w) \/ WaitRecord(w)
  \/ \E f \in Finishers, id \in SubIds, err \in ErrSet, ret \in RetSet :
       FinishSignal(f, id, err, ret)
  \/ \E f \in Finishers, e \in Emitters : Answer(f, e)
  \/ RaceCrash

SpecSignal == Init /\ [][NextSignal]_vars

-----------------------------------------------------------------------------
(* ConnectSignal calls made one after another *)

\* No ConnectSignal call is running.
ConnectsAtRest == \A c \in Connectors : conn[c].pc \in {"idle", "done"}

\* A ConnectSignal call that starts when the earlier ones have returned.
ConnectSignalNext(c, id, sig) == ConnectsAtRest /\ ConnectSignal(c, id, sig)

\* The bus with its ConnectSignal calls in sequence; the other calls run
\* concurrently with them and with each other.
NextConnect ==
  \/ \E c \in Connectors, id \in SubIds, sig \in SigNames :
       ConnectSignalNext(c, id, sig)
  \/ \E c \in Connectors :
       \/ ConnectMakeSubscriptions(c)
       \/ ConnectMakeSubscriber(c)
       \/ ConnectReadList(c)
       \/ ConnectAppend(c)
       \/ ConnectLookup(c)
       \/ ConnectMakeChan(c)
  \/ \E e \in Emitters, name \in SigNames, args \in ArgsSet :
       EmitSignal(e, name, args)
  \/ \E e \in Emitters : EmitRange(e) \/ EmitNext(e)
  \/ \E w \in Waiters, sub \in SubIds : WaitSignal(w, sub)
  \/ \E e \in Emitters, w \in Waiters : Deliver(e, w)
  \/ \E w \in Waiters : WaitCheckRet(w) \/ WaitMakeRet(w) \/ WaitRecord(w)
  \/ \E f \in Finishers, id \in SubIds, err \in ErrSet, ret \in RetSet :
       FinishSignal(f, id, err, ret)
  \/ \E f \in Finishers, e \in Emitters : Answer(f, e)
  \/ RaceCrash

SpecConnect == Init /\ [][NextConnect]_vars

-----------------------------------------------------------------------------
(* The watchdog of EmitSignal: service.go:141-150 and 157 *)

\* service.go:143  time.Sleep(time.Second) is over
WdWake(k) ==
  /\ Live
  /\ watchdog[k].pc = "sleep1"
  /\ watchdog' = [watchdog EXCEPT ![k].pc = "test"]
  /\ UNCHANGED <<subscriptions, subsMade, subscriberMade, subscriber,
                 subscriberRet, retMade, conn, emit, wait, fin, connectLog,
                 delivered, lostRet, regVars, extVars, crashed>>

\* service.go:144  for !done.  The goroutine reads done with no
\* synchronisation with the write at service.go:157: the read yields the
\* value seen.
WdTest(k, seen) ==
  /\ Live
  /\ watchdog[k].pc = "test"
  /\ watchdog' = [watchdog EXCEPT ![k].pc = IF seen THEN "exit" ELSE "sleep30"]
  /\ UNCHANGED <<subscriptions, subsMade, subscriberMade, subscriber,
                 subscriberRet, retMade, conn, emit, wait, fin, connectLog,
                 delivered, lostRet, regVars, extVars, crashed>>

\* The read observes the variable as it is.
WdSees(k) == WdTest(k, watchdog[k].done)

\* The read races with the write and yields the value from before it.
WdStale(k) == watchdog[k].done /\ WdTest(k, FALSE)

\* service.go:145-148  time.Sleep(30 * time.Second); m.Logger.Printf(..)
WdLog(k) ==
  /\ Live
  /\ watchdog[k].pc = "sleep30"
  /\ watchdog' = [watchdog EXCEPT
                    ![k].pc = "test",
                    ![k].logged = IF @ < MaxLogs THEN @ + 1 ELSE @]
  /\ UNCHANGED <<subscriptions, subsMade, subscriberMade, subscriber,
                 subscriberRet, retMade, conn, emit, wait, fin, connectLog,
                 delivered, lostRet, regVars, extVars, crashed>>

WdStep == \E k \in WdKeys : WdWake(k) \/ WdSees(k) \/ WdStale(k) \/ WdLog(k)

\* The subscribers of the signal are connected already: the list l was
\* appended to m.subscriptions in order and each of its ids has its channel.
Lists == {<<"s1">>, <<"s1", "s2">>}
Position(l, id) == CHOOSE k \in 1..Len(l) : l[k] = id
Connected(l) ==
  /\ subscriptions = [s \in SigNames |-> l]
  /\ subsMade = TRUE
  /\ subscriberMade = TRUE
  /\ subscriber = [id \in SubIds |->
                     IF \E k \in 1..Len(l) : l[k] = id
                     THEN SubChan(Position(l, id)) ELSE Nil]
  /\ connectLog = [s \in SigNames |-> l]

InitSubscribed ==
  /\ InitRegistry /\ InitLock /\ InitStore /\ InitConfig
  /\ \E l \in Lists : Connected(l)
  /\ subscriberRet = [id \in SubIds |-> Nil]
  /\ retMade = FALSE
  /\ conn = [c \in Connectors |->
               [pc |-> "idle", Id |-> "", Signal |-> "", old |-> <<>>]]
  /\ emit = [e \in Emitters |->
               [pc |-> "idle", Name |-> "", Args |-> "", n |-> 0, subs |-> <<>>,
                i |-> 0, ch |-> Nil, retChan |-> Nil, ret |-> <<>>,
                err |-> ""]]
  /\ wait = [w \in Waiters |->
               [pc |-> "idle", subscriber |-> "", ch |-> Nil,
                signal |-> NoSignal]]
  /\ fin = [f \in Finishers |->
              [pc |-> "idle", Id |-> "", Err |-> "", Ret |-> "", ch |-> Nil,
               owed |-> FALSE]]
  /\ delivered = [e \in Emitters |-> <<>>]
  /\ lostRet = {}
  /\ watchdog = [k \in WdKeys |-> NoWatchdog]
  /\ crashed = FALSE

\* One emission, its subscribers' calls and the watchdogs.
NextWatchdog ==
  \/ \E name \in SigNames, args \in ArgsSet : EmitSignal(1, name, args)
  \/ EmitRange(1) \/ EmitNext(1)
  \/ \E w \in Waiters, sub \in SubIds : WaitSignal(w, sub)
  \/ \E w \in Waiters : Deliver(1, w)
  \/ \E w \in Waiters : WaitCheckRet(w) \/ WaitMakeRet(w) \/ WaitRecord(w)
  \/ \E f \in Finishers, id \in SubIds, err \in ErrSet, ret \in RetSet :
       FinishSignal(f, id, err, ret)
  \/ \E f \in Finishers : Answer(f, 1)
  \/ \E k \in WdKeys : WdWake(k) \/ WdSees(k) \/ WdStale(k) \/ WdLog(k)

\* The timers fire, and a read that is repeated for ever does not miss the
\* write for ever.
WatchdogFairness ==
  \A k \in WdKeys : /\ WF_vars(WdWake(k))
                    /\ WF_vars(WdLog(k))
                    /\ SF_vars(WdSees(k))

SpecWatchdog == InitSubscribed /\ [][NextWatchdog]_vars /\ WatchdogFairness

-----------------------------------------------------------------------------
(* Subscribers that strictly alternate WaitSignal and FinishSignal *)

\* Two signals whose lists share the subscribers.
RoutedNames == {"X", "Y"}
RoutedRets == {"r1", "r2"}
RoutedLists ==
  {("X" :> <<"s1", "s2">>) @@ ("Y" :> <<"s2", "s1">>),
   ("X" :> <<"s1">>) @@ ("Y" :> <<"s1", "s2">>)}

\* A subscriber is one process: its WaitSignal calls run in wait[Slot(id)]
\* and its FinishSignal calls in fin[Slot(id)].
Slot(id) == IF id = "s1" THEN 1 ELSE 2

InitRouting ==
  /\ InitRegistry /\ InitLock /\ InitStore /\ InitConfig
  /\ subscriptions \in RoutedLists
  /\ connectLog = subscriptions
  /\ subsMade = TRUE
  /\ subscriberMade = TRUE
  /\ subscriber = [id \in SubIds |-> SubChan(Slot(id))]
  /\ subscriberRet = [id \in SubIds |-> Nil]
  /\ retMade = FALSE
  /\ conn = [c \in Connectors |->
               [pc |-> "idle", Id |-> "", Signal |-> "", old |-> <<>>]]
  /\ emit = [e \in Emitters |->
               [pc |-> "idle", Name |-> "", Args |-> "", n |-> 0, subs |-> <<>>,
                i |-> 0, ch |-> Nil, retChan |-> Nil, ret |-> <<>>,
                err |-> ""]]
  /\ wait = [w \in Waiters |->
               [pc |-> "idle", subscriber |-> "", ch |-> Nil,
                signal |-> NoSignal]]
  /\ fin = [f \in Finishers |->
              [pc |-> "idle", Id |-> "", Err |-> "", Ret |-> "", ch |-> Nil,
               owed |-> FALSE]]
  /\ delivered = [e \in Emitters |-> <<>>]
  /\ lostRet = {}
  /\ watchdog = [k \in WdKeys |-> NoWatchdog]
  /\ crashed = FALSE

\* The subscriber calls WaitSignal: it has no call running.
SubscriberWait(id) ==
  /\ Live
  /\ wait[Slot(id)].pc = "idle"
  /\ fin[Slot(id)].pc = "idle"
  /\ wait' = WaitLookup(Slot(id), id)
  /\ UNCHANGED <<subscriptions, subsMade, subscriberMade, subscriber,
                 subscriberRet, retMade, conn, emit, fin, connectLog,
                 delivered, lostRet, watchdog, regVars, extVars, crashed>>

\* The subscriber calls FinishSignal once its WaitSignal has returned.
SubscriberFinish(id, err, ret) ==
  /\ Live
  /\ wait[Slot(id)].pc = "done"
  /\ fin[Slot(id)].pc = "idle"
  /\ fin' = FinishLookup(Slot(id), id, err, ret)
  /\ UNCHANGED <<subscriptions, subsMade, subscriberMade, subscriber,
                 subscriberRet, retMade, conn, emit, wait, connectLog,
                 delivered, lostRet, watchdog, regVars, extVars, crashed>>

\* Both calls have returned: the subscriber goes round its loop.
SubscriberLoop(id) ==
  /\ Live
  /\ wait[Slot(id)].pc = "done"
  /\ fin[Slot(id)].pc = "done"
  /\ wait' = [wait EXCEPT ![Slot(id)] =
                [pc |-> "idle", subscriber |-> "", ch |-> Nil,
                 signal |-> NoSignal]]
  /\ fin' = [fin EXCEPT ![Slot(id)] =
               [pc |-> "idle", Id |-> "", Err |-> "", Ret |-> "", ch |-> Nil,
                owed |-> FALSE]]
  /\ UNCHANGED <<subscriptions, subsMade, subscriberMade, subscriber,
                 subscriberRet, retMade, conn, emit, connectLog,
                 delivered, lostRet, watchdog, regVars, extVars, crashed>>

NextRouting ==
  \/ \E e \in Emitters, name \in RoutedNames, args \in ArgsSet :
       EmitSignal(e, name, args)
  \/ \E e \in Emitters : EmitRange(e) \/ EmitNext(e)
  \/ \E id \in SubIds : SubscriberWait(id)
  \/ \E e \in Emitters, w \in Waiters : Deliver(e, w)
  \/ \E w \in Waiters : WaitCheckRet(w) \/ WaitMakeRet(w) \/ WaitRecord(w)
  \/ \E id \in SubIds, err \in ErrSet, ret \in RoutedRets :
       SubscriberFinish(id, err, ret)
  \/ \E f \in Finishers, e \in Emitters : Answer(f, e)
  \/ \E id \in SubIds : SubscriberLoop(id)
  \/ RaceCrash

SpecRouting == InitRouting /\ [][NextRouting]_vars

-----------------------------------------------------------------------------
(* Subscribers that keep calling, under fair scheduling *)

\* A signal with two subscribers beside one with none, and two signals with
\* one subscriber each.
LiveLists ==
  {("X" :> <<"s1", "s2">>) @@ ("Y" :> <<>>),
   ("X" :> <<"s1">>) @@ ("Y" :> <<"s2">>)}

InitLive ==
  /\ InitRegistry /\ InitLock /\ InitStore /\ InitConfig
  /\ subscriptions \in LiveLists
  /\ connectLog = subscriptions
  /\ subsMade = TRUE
  /\ subscriberMade = TRUE
  /\ subscriber = [id \in SubIds |-> SubChan(Slot(id))]
  /\ subscriberRet = [id \in SubIds |-> Nil]
  /\ retMade = FALSE
  /\ conn = [c \in Connectors |->
               [pc |-> "idle", Id |-> "", Signal |-> "", old |-> <<>>]]
  /\ emit = [e \in Emitters |->
               [pc |-> "idle", Name |-> "", Args |-> "", n |-> 0, subs |-> <<>>,
                i |-> 0, ch |-> Nil, retChan |-> Nil, ret |-> <<>>,
                err |-> ""]]
  /\ wait = [w \in Waiters |->
               [pc |-> "idle", subscriber |-> "", ch |-> Nil,
                signal |-> NoSignal]]
  /\ fin = [f \in Finishers |->
              [pc |-> "idle", Id |-> "", Err |-> "", Ret |-> "", ch |-> Nil,
               owed |-> FALSE]]
  /\ delivered = [e \in Emitters |-> <<>>]
  /\ lostRet = {}
  /\ watchdog = [k \in WdKeys |-> NoWatchdog]
  /\ crashed = FALSE

\* Every goroutine that can take its next step takes it, every subscriber
\* that can make its next call makes it, and a send and a receive that wait
\* for each other on a channel complete.
LiveFairness ==
  /\ \A id \in SubIds :
       /\ WF_vars(SubscriberWait(id))
       /\ WF_vars(\E err \in ErrSet, ret \in RoutedRets :
                    SubscriberFinish(id, err, ret))
       /\ WF_vars(SubscriberLoop(id))
  /\ \A w \in Waiters :
       WF_vars(WaitCheckRet(w) \/ WaitMakeRet(w) \/ WaitRecord(w))
  /\ \A e \in Emitters : WF_vars(EmitRange(e) \/ EmitNext(e))
  /\ \A e \in Emitters, w \in Waiters : WF_vars(Deliver(e, w))
  /\ \A f \in Finishers, e \in Emitters : WF_vars(Answer(f, e))

SpecLive == InitLive /\ [][NextRouting]_vars /\ LiveFairness

-----------------------------------------------------------------------------
(* Claims about the registry *)

\* The field addresses some registered node type or NodeFields refers to.
Referenced ==
  UNION {SeqToSet(NodeTypes[t].Fields) : t \in DOMAIN NodeTypes}
    \cup {NodeFields[f] : f \in DOMAIN NodeFields}

\* C1: a RegisterNodeType call whose Id is already registered returns an
\* error and changes neither Config.NodeTypes nor Config.NodeFields (nor any
\* object they refer to), and GetNodeType of a registered id always returns
\* the object stored by the first registration of that id.
C1_DuplicateRejected ==
  /\ [][(regCalls' # regCalls /\ reply'.arg.Id \in DOMAIN NodeTypes)
          => /\ reply'.err
             /\ NodeTypes' = NodeTypes
             /\ NodeFields' = NodeFields
             /\ heap' = heap]_vars
  /\ [](\A id \in DOMAIN firstType :
          /\ id \in DOMAIN NodeTypes
          /\ NodeTypes[id] = firstType[id].stored
          /\ (reply.op = "GetNodeType" /\ reply.arg = id)
               => (~reply.err /\ reply.val = firstType[id].stored))

\* A duplicate registration carrying other fields than the registered
\* type's was just refused.
C1_Witness ==
  /\ reply.op = "RegisterNodeType"
  /\ reply.err
  /\ reply.arg.Id \in DOMAIN NodeTypes
  /\ Len(reply.arg.Fields) # Len(NodeTypes[reply.arg.Id].Fields)
  /\ Cardinality(DOMAIN NodeTypes) = 2

\* C2: every field a registered node type lists is the object supplied by
\* the first registration that declared a field with that id: the type's
\* i-th field has the id the type listed, and is the first-declared object,
\* which is also the one Config.NodeFields holds.
C2_FieldDedup ==
  \A t \in DOMAIN NodeTypes :
    /\ Len(NodeTypes[t].Fields) = Len(firstType[t].listed)
    /\ \A i \in 1..Len(NodeTypes[t].Fields) :
         LET fid == firstType[t].listed[i]
         IN  /\ heap[NodeTypes[t].Fields[i]].Id = fid
             /\ NodeTypes[t].Fields[i] = firstField[fid]
             /\ NodeFields[fid] = firstField[fid]

\* Three types list the same field id, the second and the third with a
\* definition of their own, both discarded, and the two differing from the
\* first declared one.
C2_Witness ==
  \E fid \in DOMAIN firstField :
    /\ \A t \in TypeIds :
         /\ t \in DOMAIN NodeTypes
         /\ \E i \in 1..Len(NodeTypes[t].Fields) :
              NodeTypes[t].Fields[i] = firstField[fid]
    /\ \E a, b \in DOMAIN heap \ Referenced :
         /\ a[1] # b[1]
         /\ heap[a].Id = fid /\ heap[b].Id = fid
         /\ heap[a].Def # heap[firstField[fid]].Def
         /\ heap[b].Def # heap[a].Def

\* The ids of the types with an AddableTo entry that is ".", or equals P, or
\* ends with "." and is a literal prefix of P.
IsPrefix(a, b) == Len(a) <= Len(b) /\ SubSeq(b, 1, Len(a)) = a
Addable(t, P) ==
  \E k \in 1..Len(NodeTypes[t].AddableTo) :
    LET a == NodeTypes[t].AddableTo[k]
    IN  \/ a = Dot
        \/ a = P
        \/ (Len(a) > 0 /\ a[Len(a)] = "." /\ IsPrefix(a, P))

\* C3: GetAddableNodeTypes(P) returns exactly the ids of the types with a
\* matching AddableTo entry, each once.
C3_AddableExactly ==
  reply.op = "GetAddableNodeTypes" =>
    /\ ~reply.panic
    /\ SeqToSet(reply.val) = {t \in DOMAIN NodeTypes : Addable(t, reply.arg)}
    /\ Cardinality(SeqToSet(reply.val)) = Len(reply.val)

\* Whenever the call does return, it returns what C3 says (not a claim's
\* formula: it locates C3's failure in the panics alone).
AddableWhenReturned ==
  (reply.op = "GetAddableNodeTypes" /\ ~reply.panic) =>
    /\ SeqToSet(reply.val) = {t \in DOMAIN NodeTypes : Addable(t, reply.arg)}
    /\ Cardinality(SeqToSet(reply.val)) = Len(reply.val)


\* The goroutines registering id, and those of them that have returned nil.
Registering(id) ==
  {p \in Procs : /\ rpc[p].pc # "idle"
                 /\ rpc[p].op = "RegisterNodeType"
                 /\ rpc[p].arg.Id = id}
Registered(id) == {p \in Registering(id) : rpc[p].pc = "done" /\ ~rpc[p].err}

\* C11: no GetNodeType or GetAddableNodeTypes call has read a type whose
\* fields were not all registered, and of the registrations of one id at
\* most one succeeds, and exactly one once all of them have returned.
C11_AtomicRegistration ==
  /\ \A p \in Procs :
       (rpc[p].pc \in {"RUnlock", "done"} /\ rpc[p].op # "RegisterNodeType")
         => ~rpc[p].partial
  /\ \A id \in {"t1", "t2"} :
       /\ Cardinality(Registered(id)) <= 1
       /\ (Registering(id) # {} /\ \A p \in Registering(id) : rpc[p].pc = "done")
            => Cardinality(Registered(id)) = 1

\* A reader is waiting for the lock while one registration of an id is in
\* its field loop, the type inserted and partial, and a second registration
\* of the same id is waiting as well.
C11_Witness ==
  \E w, r, q \in Procs :
    /\ rpc[w].pc = "L421" /\ rpc[w].op = "RegisterNodeType"
    /\ Partial(rpc[w].arg.Id)
    /\ rpc[r].pc = "RLock"
    /\ rpc[q].pc = "Lock" /\ rpc[q].arg.Id = rpc[w].arg.Id


\* C12: GetAddableNodeTypes never fails: whatever the parent type id and the
\* registered AddableTo entries, the call returns a list.
C12_NeverFails ==
  reply.op = "GetAddableNodeTypes" => (~reply.panic /\ ~crashed)

\* C13 as stated: GetAddableNodeTypes returns no type whose Hide flag is set.
C13_HiddenExcluded ==
  (reply.op = "GetAddableNodeTypes" /\ ~reply.panic) =>
    \A t \in SeqToSet(reply.val) : ~NodeTypes[t].Hide

\* C13 as amended: GetAddableNodeTypes does not consult Hide: a list it
\* returns holds the id of every registered type with a matching AddableTo
\* entry whose Hide flag is set.
C13_HiddenListed ==
  (reply.op = "GetAddableNodeTypes" /\ ~reply.panic) =>
    \A t \in DOMAIN NodeTypes :
      (NodeTypes[t].Hide /\ Addable(t, reply.arg)) => t \in SeqToSet(reply.val)

\* A hidden type addable to everything (as core.Image is) and a visible one
\* were both returned.
C13_Witness ==
  /\ reply.op = "GetAddableNodeTypes"
  /\ ~reply.panic
  /\ \E t, u \in SeqToSet(reply.val) :
       /\ NodeTypes[t].Hide /\ Dot \in SeqToSet(NodeTypes[t].AddableTo)
       /\ ~NodeTypes[u].Hide


-----------------------------------------------------------------------------
(* Claims about the node store *)

\* A JSON document read as an object: its members, the last of two members
\* with one key winning (as encoding/json decodes).
IsObject(doc) ==
  /\ Len(doc) >= 2
  /\ doc[1] = Open
  /\ doc[Len(doc)] = Close
  /\ \/ Len(doc) = 2
     \/ /\ Len(doc) % 2 = 1
        /\ \A k \in 2..(Len(doc) - 1) :
             IF k % 2 = 0 THEN Len(doc[k]) = 2 ELSE doc[k] = Comma
MemberAt(doc) == {k \in 2..(Len(doc) - 1) : k % 2 = 0}
Keys(doc) == {doc[k][1] : k \in MemberAt(doc)}
ValueOf(doc, key) ==
  doc[CHOOSE k \in MemberAt(doc) :
        /\ doc[k][1] = key
        /\ \A j \in MemberAt(doc) : (j > k => doc[j][1] # key)][2]

\* node is doc with the attribute Path = path added.
IsDocWithPath(node, doc, path) ==
  /\ IsObject(node)
  /\ Keys(node) = Keys(doc) \cup {"Path"}
  /\ ValueOf(node, "Path") = path
  /\ \A key \in Keys(doc) \ {"Path"} : ValueOf(node, key) = ValueOf(doc, key)

\* The node document of path is a regular file that can be read.
HasNode(f, path) ==
  /\ NodeLoc(path) \in DOMAIN f
  /\ f[NodeLoc(path)].kind = "file"
  /\ ~f[NodeLoc(path)].bad

\* C14: GetNode of a path whose node.json was written returns the written
\* document with Path = p added, and GetNode of a path that has no node.json
\* returns absent and no error.
C14_RoundTrip ==
  sreply.op = "GetNode" =>
    /\ HasNode(fs, sreply.path) =>
         /\ sreply.err = ""
         /\ IsDocWithPath(sreply.node, fs[NodeLoc(sreply.path)].data, sreply.path)
    /\ NodeLoc(sreply.path) \notin DOMAIN fs =>
         /\ sreply.err = ""
         /\ sreply.node = Nil

\* The first half of C14 alone (not a claim's formula: it locates C14's
\* failure in the paths without node.json).
RoundTripWhenPresent ==
  (sreply.op = "GetNode" /\ HasNode(fs, sreply.path)) =>
    /\ sreply.err = ""
    /\ IsDocWithPath(sreply.node, fs[NodeLoc(sreply.path)].data, sreply.path)

\* The last call was a RenameNode of a node that could be read.
RenamedNode ==
  /\ sreply.op = "RenameNode"
  /\ HasNode(sreply.before, sreply.source)
NodeStillThere(path) ==
  /\ HasNode(fs, path)
  /\ getNode(fs, path) = getNode(sreply.before, path)
NodeMoved ==
  /\ getNode(fs, sreply.source) = [node |-> Nil, err |-> ""]
  /\ getNode(fs, sreply.target) =
       [node |-> Inject(sreply.before[NodeLoc(sreply.source)].data,
                        sreply.target),
        err |-> ""]
  /\ IsDirAt(fs, Parent(NodeLoc(sreply.target)))

FailingChildren ==
  {n \in ChildNames(fs, Components(sreply.path)) :
     ReadFile(fs, NodeLoc(JoinPath(sreply.path, n))).err \in {"EACCES", "EISDIR"}}

\* C17: when reading a child's node.json fails, GetChildren returns an error
\* and no list.
C17_ListingAborts ==
  (sreply.op = "GetChildren" /\ IsDirAt(fs, Components(sreply.path))
     /\ FailingChildren # {})
    => (sreply.err # "" /\ sreply.val = <<>>)

-----------------------------------------------------------------------------
(* Claims about result routing *)

\* EmitSignal call e has returned nil.
Succeeded(e) == emit[e].pc = "done" /\ emit[e].err = ""

\* The k-th result of emitter e is the one of the k-th subscriber l[k]: the
\* delivery was consumed by that subscriber's WaitSignal, it was answered by
\* that subscriber's FinishSignal (under alternation, the one that follows
\* the WaitSignal), and the entry is the bytes passed to that FinishSignal.
RoutedTo(e, k, id) ==
  /\ delivered[e][k].sub = id
  /\ delivered[e][k].w = Slot(id)
  /\ delivered[e][k].answered
  /\ delivered[e][k].by = id
  /\ delivered[e][k].f = Slot(id)
  /\ emit[e].ret[k] = delivered[e][k].ret

\* C20: with subscribers that strictly alternate WaitSignal and FinishSignal
\* and emitters that run concurrently on signals sharing subscribers, an
\* EmitSignal that succeeds returns one entry for each subscribed id, in
\* subscription order, and entry k is the result its k-th subscriber passed
\* to the FinishSignal answering this emission's delivery.
C20_ResultRouting ==
  \A e \in Emitters :
    Succeeded(e) =>
      LET l == subscriptions[emit[e].Name]
      IN  /\ Len(emit[e].ret) = Len(l)
          /\ Len(delivered[e]) = Len(l)
          /\ \A k \in 1..Len(l) : RoutedTo(e, k, l[k])

\* Two concurrent emissions of different signals with the same two
\* subscribers have both succeeded, with different results.
C20_Witness ==
  /\ Succeeded(1) /\ Succeeded(2)
  /\ emit[1].Name # emit[2].Name
  /\ Len(emit[1].ret) = 2 /\ Len(emit[2].ret) = 2
  /\ emit[1].ret[1] # emit[1].ret[2]
  /\ emit[1].ret # emit[2].ret
  /\ delivered[2][1].sub = delivered[1][2].sub

-----------------------------------------------------------------------------
(* Claims about the termination of EmitSignal *)

Running(e) == emit[e].pc \notin {"idle", "done"}
Returns(e) == Running(e) ~> (emit[e].pc = "done")

\* An emission of a signal without subscribers never waits for anybody and
\* its list of results is empty.
ReturnsAtOnce(e) ==
  (emit[e].pc # "idle" /\ subscriptions[emit[e].Name] = <<>>)
    => /\ emit[e].pc \in {"L139", "L140", "done"}
       /\ emit[e].ret = <<>>
       /\ emit[e].err = ""

\* C21: when the subscribers keep calling WaitSignal and then FinishSignal
\* under fair scheduling, every EmitSignal eventually returns, with several
\* emitters at once and after an emission aborted by an error; an EmitSignal
\* of a signal with no subscribers returns at once with an empty list.
C21_EmitReturns ==
  /\ \A e \in Emitters : Returns(e)
  /\ [](\A e \in Emitters : ReturnsAtOnce(e))

\* What holds of C21 (not a claim's formula): an emission returns unless the
\* daemon died or a result channel was lost from m.subscriberRet, and the
\* emission of a signal without subscribers does not wait.
ReturnsUnlessRaced ==
  /\ (\A e \in Emitters : Returns(e)) \/ <>(crashed \/ lostRet # {})
  /\ [](\A e \in Emitters : ReturnsAtOnce(e))

-----------------------------------------------------------------------------
(* Claims about the inbound channels *)

\* Every id of every subscription list has an inbound channel.
ListedHaveChannel ==
  \A s \in DOMAIN subscriptions :
    \A k \in 1..Len(subscriptions[s]) : subscriber[subscriptions[s][k]] # Nil

\* An emitter blocked sending has the channel its subscriber still has.
SendersAttached ==
  \A e \in Emitters :
    (emit[e].pc = "send" /\ emit[e].ch # Nil)
      => subscriber[emit[e].subs[emit[e].i]] = emit[e].ch

\* The channel an id has is the channel it keeps while the daemon lives.
ChannelKept ==
  \A id \in SubIds :
    subscriber[id] # Nil => (subscriber'[id] = subscriber[id] \/ crashed')

ListedHaveChannelAtRest == ConnectsAtRest => ListedHaveChannel

-----------------------------------------------------------------------------
(* Claims about the watchdog *)

\* The result of the i-th subscriber of emitter e has arrived.
Resolved(k) ==
  /\ Len(delivered[k[1]]) >= k[2]
  /\ delivered[k[1]][k[2]].answered
ResolvedWell(k) == Resolved(k) /\ delivered[k[1]][k[2]].err = ""
Stopped(k) == watchdog[k].pc \in {"exit", "none"}

\* C19: the watchdog never cancels or times out the wait (none of its steps
\* changes an EmitSignal, WaitSignal or FinishSignal call), and once the
\* subscriber's result has arrived, be it a result or an error, the watchdog
\* eventually stops for good.
C19_WatchdogCancelled ==
  /\ [][WdStep => UNCHANGED <<emit, wait, fin>>]_vars
  /\ \A k \in WdKeys : Resolved(k) ~> [](Stopped(k) \/ crashed)

\* The half of C19 the code keeps (not a claim's formula): the watchdog
\* leaves the calls alone, and it stops after a result without error.
StopsAfterResult ==
  /\ [][WdStep => UNCHANGED <<emit, wait, fin>>]_vars
  /\ \A k \in WdKeys : ResolvedWell(k) ~> [](Stopped(k) \/ crashed)

-----------------------------------------------------------------------------
(* Claims about the site configuration *)

\* What a name asks for: the module before the first dot and the keys after
\* it; no keys at all when the name has no dot.
HasDot(name) == \E k \in 1..Len(name) : name[k] = "."
ModuleOf(name) ==
  IF HasDot(name) THEN SplitN2(name)[1] ELSE name
KeysOf(name) ==
  IF HasDot(name) THEN Split(SplitN2(name)[2]) ELSE <<>>

\* The value at the end of keys (from the k-th on) inside v, or "none".
RECURSIVE Resolves(_, _, _)
Resolves(v, keys, k) ==
  IF k > Len(keys) THEN TRUE
  ELSE /\ v.t = "obj"
       /\ keys[k] \in DOMAIN v.m
       /\ Resolves(v.m[keys[k]], keys, k + 1)

\* The path of non-empty keys does not resolve inside the module's
\* configuration.
Unresolved(name) ==
  /\ HasDot(name)
  /\ \A k \in 1..Len(KeysOf(name)) : KeysOf(name)[k] # <<>>
  /\ FileOf(ModuleOf(name)).st = "json"
  /\ ~Resolves(FileOf(ModuleOf(name)).v, KeysOf(name), 1)

\* C18: GetSiteConfig returns the wrapper with an empty Value and no error
\* when the path does not resolve, when the module's file does not exist and
\* when the name has nothing after the module.
C18_AbsentWrapped ==
  (creply.op = "GetSiteConfig"
     /\ \/ Unresolved(creply.name)
        \/ FileOf(ModuleOf(creply.name)).st = "absent"
        \/ ~HasDot(creply.name))
    => /\ ~creply.panic
       /\ creply.err = ""
       /\ creply.val = [Value |-> Null]

\* The first case of C18 alone (not a claim's formula: it locates C18's
\* failure in the other two cases).
WrappedWhenUnresolved ==
  (creply.op = "GetSiteConfig" /\ Unresolved(creply.name))
    => /\ ~creply.panic
       /\ creply.err = ""
       /\ creply.val = [Value |-> Null]

-----------------------------------------------------------------------------
(* Claims about the signal bus *)

RECURSIVE IsSubseq(_, _)
IsSubseq(a, b) ==
  IF a = <<>> THEN TRUE
  ELSE IF b = <<>> THEN FALSE
  ELSE IF Head(a) = Head(b) THEN IsSubseq(Tail(a), Tail(b))
  ELSE IsSubseq(a, Tail(b))

\* The subscriber ids emitter e's signal was delivered to, in order.
DeliveredTo(e) == [k \in 1..Len(delivered[e]) |-> delivered[e][k].sub]

\* C4: the subscribers receive the signal of one emission in the order in
\* which they were connected: the deliveries follow the list the emitter
\* ranges over, without skipping, and that list is in connection order.
C4_DeliveryOrder ==
  \A e \in Emitters :
    emit[e].pc \notin {"idle", "L139"} =>
      /\ IsPrefix(DeliveredTo(e), emit[e].subs)
      /\ IsSubseq(emit[e].subs, connectLog[emit[e].Name])

\* One emission has been delivered to two different subscribers.
C4_Witness ==
  \E e \in Emitters :
    /\ Len(delivered[e]) = 2
    /\ delivered[e][1].sub # delivered[e][2].sub

\* C5: an emission answered with a non-empty error has returned an error,
\* and the answered delivery is its last one.
C5_ErrorAborts ==
  \A e \in Emitters : \A k \in 1..Len(delivered[e]) :
    delivered[e][k].err # "" =>
      /\ k = Len(delivered[e])
      /\ emit[e].pc = "done"
      /\ emit[e].err # ""

\* The first of two subscribers answered with an error; the second one is
\* blocked in WaitSignal on its channel.
C5_Witness ==
  \E e \in Emitters, w \in Waiters :
    /\ Len(delivered[e]) = 1
    /\ delivered[e][1].err # ""
    /\ Len(emit[e].subs) = 2
    /\ wait[w].pc = "recv"
    /\ wait[w].subscriber = emit[e].subs[2]
    /\ wait[w].ch # Nil

\* C6: EmitSignal is at its i-th subscriber, or has returned, only when
\* every earlier delivery was consumed by a WaitSignal of that subscriber
\* that has returned and was answered by a FinishSignal of that subscriber.
C6_BlockingContract ==
  \A e \in Emitters :
    LET d == delivered[e]
        Closed(k) == /\ d[k].answered
                     /\ d[k].sub = emit[e].subs[k]
                     /\ d[k].by = d[k].sub
                     /\ wait[d[k].w].pc = "done"
    IN  /\ emit[e].pc \in {"idle", "L139"} => d = <<>>
        /\ emit[e].pc \in {"L140", "send"} =>
             /\ Len(d) = emit[e].i - 1
             /\ \A k \in 1..Len(d) : Closed(k)
        /\ emit[e].pc = "recv" =>
             /\ Len(d) = emit[e].i
             /\ \A k \in 1..(Len(d) - 1) : Closed(k)
             /\ ~d[Len(d)].answered
        /\ emit[e].pc = "done" =>
             /\ \A k \in 1..Len(d) : Closed(k)
             /\ emit[e].err = "" => Len(d) = Len(emit[e].subs)

\* An emission went on to its second subscriber.
C6_Witness ==
  \E e \in Emitters :
    /\ emit[e].pc \in {"send", "recv"}
    /\ emit[e].i = 2
    /\ delivered[e][1].answered

\* C7: each subscriber id has at most one emission in flight, and no pending
\* result channel is overwritten in m.subscriberRet.
C7_OneInFlight ==
  /\ \A id \in SubIds : Cardinality(inflight(id)) <= 1
  /\ lostRet = {}

Count(s, x) == Cardinality({k \in 1..Len(s) : s[k] = x})

\* C8: ConnectSignal is idempotent: no subscription list holds an id twice,
\* and no emission is delivered twice to one subscriber.
C8_ConnectIdempotent ==
  /\ \A sig \in SigNames : \A id \in SubIds : Count(subscriptions[sig], id) <= 1
  /\ \A e \in Emitters : \A id \in SubIds : Count(DeliveredTo(e), id) <= 1

\* C9 as stated: a FinishSignal called for a subscriber with nothing in
\* flight has returned (with an error) instead of blocking.
C9_FinishFails ==
  \A f \in Finishers :
    (fin[f].pc # "idle" /\ ~fin[f].owed) => fin[f].pc = "done"

\* C9 as amended: a FinishSignal called for a subscriber with nothing in
\* flight never returns and never delivers a result: it stays blocked in
\* its send.
C9_FinishBlocks ==
  \A f \in Finishers :
    (fin[f].pc # "idle" /\ ~fin[f].owed) => fin[f].pc = "send"

\* A second FinishSignal for the same delivery: blocked on the result
\* channel that has already been answered.
C9_Witness ==
  \E f \in Finishers, e \in Emitters :
    /\ fin[f].pc = "send"
    /\ ~fin[f].owed
    /\ fin[f].ch = RetChan(e, 1)
    /\ delivered[e][1].answered

\* The calls in the middle of an update of the tables (the next step of the
\* call writes what it decided on an earlier read), and the calls in the
\* middle of their accesses to the tables.
Mutating ==
  {<<"conn", c>> : c \in {x \in Connectors :
                           conn[x].pc \in {"L122", "L123", "L125w", "L127"}}}
    \cup {<<"wait", w>> : w \in {x \in Waiters : wait[x].pc \in {"L172", "L174"}}}
Accessing ==
  Mutating
    \cup {<<"conn", c>> : c \in {x \in Connectors : conn[x].pc \in {"L125r", "L126"}}}
    \cup {<<"emit", e>> : e \in {x \in Emitters : emit[x].pc \in {"L139", "L140"}}}
    \cup {<<"wait", w>> : w \in {x \in Waiters : wait[x].pc = "L171"}}

\* C10: mutation of the tables is exclusive: while a call is in the middle
\* of an update, no other call is in the middle of its accesses.
C10_ExclusiveTables == \A p \in Mutating : Accessing \ {p} = {}

=============================================================================
